---- MODULE Spec2Model ----
(***************************************************************************)
(* doc2pages (clockblocker/bookkeeper): the bounded-concurrency executor   *)
(* batchExec, the PDF render planner (chunkPages, renderPageRange,         *)
(* renderPdf), the page normalizer (processPages), the extraction stage    *)
(* (extractPages) and the manifest assembly of main, as state machines.    *)
(***************************************************************************)
EXTENDS Integers, Sequences, FiniteSets, TLC

\* ------------------------------------------------------------------ bounds

\* Longest input sequence of a stand-alone batchExec call.
MaxItems == 4
\* Largest concurrency limit passed to a stand-alone batchExec call.
MaxConcurrency == 3
\* Largest page count and parallelism handed to chunkPages on its own.
MaxChunkPages == 10
MaxChunkConcurrency == 10
\* Largest document and concurrency of a whole run of main.
MaxPages == 2
MaxRunConcurrency == 2
\* Largest document and concurrency of a call of renderPdf on its own.
MaxRenderPages == 3
MaxRenderConcurrency == 2
\* Largest number of layout blocks in a report handed to chopPage.
MaxBlocks == 3
\* Largest number of regions of a page handed to extractPage.
MaxRegions == 3
\* Largest document and concurrency of a call of extractPages on its own.
MaxExtractPages == 3
MaxExtractConcurrency == 2
\* Largest number of pieces in the marker stream of a JPEG file.
MaxSegments == 3
\* Largest number of data rows in a layout report.
MaxRows == 3

\* ------------------------------------------------------- program constants

\* let dpi = 200 (the default of parseArgs)
Dpi == 200

\* ----------------------------------------------------------------- helpers

Min(a, b) == IF a < b THEN a ELSE b

Max(a, b) == IF a > b THEN a ELSE b

Range(s) == {s[i] : i \in 1..Len(s)}

SeqsUpTo(S, n) == UNION {[1..k -> S] : k \in 0..n}

\* ------------------------------------------------------------------- state

VARIABLES
    items,          \* batchExec: the inputs of the running call
    concurrency,    \* batchExec: its concurrency argument
    results,        \* batchExec: the results array, indexed from 0
    nextIndex,      \* batchExec: the shared cursor
    workers,        \* batchExec: one entry per worker() promise
    callState,      \* batchExec: "idle", "pending", "returned" or "thrown"
    inFlight,       \* instrumented: operations started and not yet settled
    startedOps,     \* instrumented: indices whose operation has been started
    failedOps,      \* instrumented: indices whose operation rejected
    outOfOrder,     \* instrumented: some operation settled before an earlier one
    phase,          \* position of the control flow of main / of the function under study
    pageCount,      \* renderPdf: pdfInfo.pageCount
    options,        \* main: RenderOptions
    chunks,         \* renderPdf: the page ranges from chunkPages
    pageSizePts,    \* renderPdf: pdfInfo.pageSizePts
    extractEnabled, \* main: GOOGLE_GENERATIVE_AI_API_KEY is set
    entry,          \* the function called from outside: "main", "renderPdf", ...
    pageSizes,      \* the pixel sizes the rendered page files of the document can have
    unit,           \* input and locals of chopPage / extractPage called on its own
    opState,        \* per worker: the locals of the per-item function it awaits
    pageFiles,      \* renderPdf: pageFiles
    errors,         \* renderPdf: errors
    rendered,       \* main: result, as returned by renderPdf
    processed,      \* main: processed, as returned by processPages
    extracted,      \* main: extracted, as returned by extractPages
    manifest,       \* the manifest handed to writeManifest
    rasterLog,      \* instrumented: per chunk, the rasterizer invocations
    measuredPages,  \* instrumented: pages renderPdf called getImageDimensions on
    spotChecked,    \* instrumented: the two measurements of renderPdf's spot-check
    faults,         \* instrumented: <<stage, page, kind>> of what went wrong for a page
    running,        \* instrumented: <<stage, item>> of the operations started, not settled
    magickRuns,     \* instrumented: per page, the number of runs of the cleanup transform
    deleted         \* instrumented: pages whose pre-normalization file was unlinked

batchVars == <<items, concurrency, results, nextIndex, workers, callState>>

probeVars == <<inFlight, startedOps, failedOps, outOfOrder>>

planVars ==
    <<pageCount, options, chunks, pageSizePts, extractEnabled, entry, pageSizes, unit>>

runVars == <<opState, pageFiles, errors, rendered, processed, extracted, manifest>>

traceVars == <<rasterLog, measuredPages, spotChecked, faults>>

effectVars == <<running, magickRuns, deleted>>

vars == <<batchVars, probeVars, phase, planVars, runVars, traceVars, effectVars>>

\* ---------------------------------------------------------------- batchExec

\* null / undefined.
Null == [kind |-> "null"]

\* A slot of `new Array(items.length)` that no worker has written yet.
Hole == [kind |-> "hole"]

\* The value the per-item operation of a stand-alone call fulfils with.
OpValue(item) == [kind |-> "value", of |-> item]

ItemValues == {"a", "b"}

workerCountUnclamped(conc, n) == n

\* const workerCount = Math.min(concurrency, items.length)
workerCount(conc, n) == Min(conc, n)

StoreAtFirstHole(res, index, v) ==
    LET holes == {i \in DOMAIN res : res[i] = Hole}
        first == CHOOSE i \in holes : \A j \in holes : i <= j
    IN  [res EXCEPT ![first] = v]

\* results[index] = <the awaited value>
StoreResult(res, index, v) == [res EXCEPT ![index] = v]

cursorKept(cursor) == cursor

\* const index = nextIndex++ : the cursor after the claim.
cursorAfterClaim(cursor) == cursor + 1

\* The workers while awaiting their operation.
Awaiting == {w \in DOMAIN workers : workers[w].st = "awaiting"}

AnyExited(ws) == \E w \in DOMAIN ws : ws[w].st = "exited"

\* Promise.all over the worker promises has fulfilled.
AllExited(ws) == \A w \in DOMAIN ws : ws[w].st = "exited"

\* The synchronous part of batchExec(items, fn, concurrency): the results
\* array is allocated and workerCount workers are created; each runs up to
\* its first await, that is, claims the index under the cursor and starts
\* the operation of that item.
StartBatch(its, conc) ==
    LET n  == Len(its)
        wc == workerCount(conc, n)
        claimed == Min(wc, n)
    IN  /\ items' = its
        /\ concurrency' = conc
        /\ results' = [i \in 0..(n - 1) |-> Hole]
        /\ workers' = [w \in 1..wc |->
                         IF w <= n THEN [st |-> "awaiting", index |-> w - 1]
                                   ELSE [st |-> "exited", index |-> n]]
        /\ nextIndex' = claimed
        /\ inFlight' = claimed
        /\ startedOps' = 0..(claimed - 1)
        /\ failedOps' = {}
        /\ outOfOrder' = FALSE
        /\ callState' = IF wc = 0 THEN "returned" ELSE "pending"

\* Some operation with a smaller index than that of worker w is still running.
EarlierRunning(w) ==
    \E u \in Awaiting : workers[u].index < workers[w].index

\* The operation awaited by worker w fulfils with v: the worker stores v at
\* the index it claimed and runs its loop again, claiming the next index and
\* starting that operation, or leaving the loop when none is left.  When the
\* last worker leaves, Promise.all fulfils and batchExec returns results.
WorkerResume(w, v) ==
    LET more == nextIndex < Len(items)
        ws == [workers EXCEPT ![w] =
                 IF more THEN [st |-> "awaiting", index |-> nextIndex]
                         ELSE [st |-> "exited", index |-> @.index]]
    IN  /\ workers[w].st = "awaiting"
        /\ results' = StoreResult(results, workers[w].index, v)
        /\ workers' = ws
        /\ nextIndex' = IF more THEN cursorAfterClaim(nextIndex) ELSE nextIndex
        /\ inFlight' = IF more THEN inFlight ELSE inFlight - 1
        /\ startedOps' = IF more THEN startedOps \cup {nextIndex} ELSE startedOps
        /\ outOfOrder' = (outOfOrder \/ EarlierRunning(w))
        /\ callState' = IF callState = "pending" /\ AllExited(ws)
                          THEN "returned" ELSE callState
        /\ UNCHANGED <<items, concurrency, failedOps>>

\* The operation awaited by worker w rejects: the await throws inside
\* worker(), nothing catches it, the worker's promise rejects, and so does
\* Promise.all and with it the batchExec call.  The other workers are not
\* cancelled.
WorkerThrow(w) ==
    /\ workers[w].st = "awaiting"
    /\ workers' = [workers EXCEPT ![w].st = "rejected"]
    /\ inFlight' = inFlight - 1
    /\ failedOps' = failedOps \cup {workers[w].index}
    /\ outOfOrder' = (outOfOrder \/ EarlierRunning(w))
    /\ callState' = IF callState = "pending" THEN "thrown" ELSE callState
    /\ UNCHANGED <<items, concurrency, results, nextIndex, startedOps>>

\* The call is over and its locals are gone.
ResetBatch ==
    /\ items' = <<>>
    /\ concurrency' = 0
    /\ results' = <<>>
    /\ nextIndex' = 0
    /\ workers' = <<>>
    /\ callState' = "idle"
    /\ inFlight' = 0
    /\ startedOps' = {}
    /\ failedOps' = {}
    /\ outOfOrder' = FALSE

\* No batchExec call is under way.
BatchIdle ==
    /\ items = <<>>
    /\ concurrency = 0
    /\ results = <<>>
    /\ nextIndex = 0
    /\ workers = <<>>
    /\ callState = "idle"
    /\ inFlight = 0
    /\ startedOps = {}
    /\ failedOps = {}
    /\ outOfOrder = FALSE

\* --------------------------------------------------------------- chunkPages

numChunksUnclamped(count, conc) == conc

\* const numChunks = Math.min(concurrency, pageCount)
numChunksOf(count, conc) == Min(conc, count)

chunkSizeOffByOne(i, baseSize, remainder) ==
    baseSize + (IF i <= remainder THEN 1 ELSE 0)

\* const size = baseSize + (i < remainder ? 1 : 0)
chunkSize(i, baseSize, remainder) ==
    baseSize + (IF i < remainder THEN 1 ELSE 0)

\* The loop of chunkPages from iteration i on, with `start` and `chunks`
\* as the loop has left them.
RECURSIVE chunkLoop(_, _, _, _, _, _)
chunkLoop(i, start, acc, numChunks, baseSize, remainder) ==
    IF i < numChunks
      THEN LET size == chunkSize(i, baseSize, remainder)
           IN  chunkLoop(i + 1, start + size,
                         Append(acc, [first |-> start, last |-> start + size - 1]),
                         numChunks, baseSize, remainder)
      ELSE acc

chunkPages(count, conc) ==
    LET numChunks == numChunksOf(count, conc)
        baseSize  == count \div numChunks
        remainder == count % numChunks
    IN  chunkLoop(0, 1, <<>>, numChunks, baseSize, remainder)

\* -------------------------------------------------------- per-item functions

\* No per-item function is awaited by this worker.
NoOp == [step |-> "none"]

\* renderPageRange(pdfPath, outputDir, chunk.first, chunk.last, options):
\* its arguments, retryCount = 0, suspended in `await exec(cmd, ...)`.
RenderOp(chunk) ==
    [step |-> "pdftoppm", firstPage |-> chunk.first, lastPage |-> chunk.last,
     retryCount |-> 0]

\* The per-item function of a stage, suspended at its first await.
OpStart(stage, item) ==
    CASE stage = "render"  -> RenderOp(item)
      [] stage = "measure" -> [step |-> "getImageDimensions"]
      [] stage = "process" -> [step |-> "magick"]
      [] stage = "extract" -> [step |-> "extractPage"]

\* The two measurements of renderPdf's spot-check, as operations.
SpotOps == {<<"spotcheck", 0>>, <<"spotcheck", 1>>}

\* The operations of `stage` on the items at the (0-based) indices idxs.
OpsOf(stage, idxs) == {<<stage, i>> : i \in idxs}

\* The run counts once the cleanup transform has been started for `pages`.
RunsAfter(runs, pages) ==
    [p \in DOMAIN runs \cup pages |->
       (IF p \in DOMAIN runs THEN runs[p] ELSE 0) + (IF p \in pages THEN 1 ELSE 0)]

\* The functions the workers await right after StartBatch: each is called
\* with its item and runs up to its first await.
FreshOps(stage) ==
    /\ opState' = [w \in DOMAIN workers' |->
                     IF workers'[w].st = "awaiting"
                       THEN OpStart(stage, items'[workers'[w].index + 1])
                       ELSE NoOp]
    /\ running' = (running \ SpotOps) \cup OpsOf(stage, startedOps')
    /\ magickRuns' = IF stage = "process"
                       THEN RunsAfter(magickRuns,
                                      {items'[i + 1].index : i \in startedOps'})
                       ELSE magickRuns

\* The function worker w awaits after WorkerResume: the one it awaited has
\* settled, and the next one, if any, has been called.
NextOp(w, stage) ==
    LET begun == IF workers'[w].st = "awaiting" THEN {workers'[w].index} ELSE {}
    IN  /\ opState' = [opState EXCEPT ![w] =
                         IF workers'[w].st = "awaiting"
                           THEN OpStart(stage, items[workers'[w].index + 1])
                           ELSE NoOp]
        /\ running' = (running \ {<<stage, workers[w].index>>}) \cup OpsOf(stage, begun)
        /\ magickRuns' = IF stage = "process"
                           THEN RunsAfter(magickRuns, {items[i + 1].index : i \in begun})
                           ELSE magickRuns

\* The results array as a sequence (for ... of results).
ResultSeq == [i \in 1..Len(items) |-> results[i - 1]]

\* for (const result of results) if (result.success) pages.push(result.page)
PagesOf(rs) ==
    LET IsOk(r) == r.success
        ok == SelectSeq(rs, IsOk)
    IN  [i \in 1..Len(ok) |-> ok[i].page]

\* ... else errors.push(result.error)
ErrorsOf(rs) ==
    LET IsErr(r) == ~r.success
        bad == SelectSeq(rs, IsErr)
    IN  [i \in 1..Len(bad) |-> bad[i].error]

\* ---------------------------------------------------------------- file names

\* `page-${paddedNum}.${options.format}`
PageFile(i, format) == [stem |-> <<"page", i>>, ext |-> format]

\* basename(file, oldExt) + newExt
SwapExt(file, oldExt, newExt) ==
    IF file.ext = oldExt
      THEN [stem |-> file.stem, ext |-> newExt]
      ELSE [stem |-> file.stem \o <<file.ext>>, ext |-> newExt]

\* ----------------------------------------------------------- image dimensions

DimsOf(w, h) == [width |-> w, height |-> h]

\* The page size of the document, in points (A4).
PagePts == DimsOf(595, 842)

\* Math.ceil(pts * dpi / 72)
ptsToPixels(pts, dpi) == (pts * dpi + 71) \div 72

\* The pixel size pdfinfo's page size predicts.
PredictedDims(sizePts, dpi) ==
    DimsOf(ptsToPixels(sizePts.width, dpi), ptsToPixels(sizePts.height, dpi))

\* The sizes a rendered page file can have: the predicted one, and one off
\* on either axis.
RenderedSizes ==
    LET p == PredictedDims(PagePts, Dpi)
    IN  {p, DimsOf(p.width + 1, p.height), DimsOf(p.width, p.height + 1)}

\* The size a normalized (trimmed, bordered) page file can have.
NormalizedSizes == {DimsOf(1600, 2300)}

\* What `identify -format '%w %h'` can do on a file of one of the sizes D:
\* time out, exit non-zero, print something that does not parse, print w h.
IdentifyRuns(D) ==
    {[timedOut |-> TRUE]}
    \cup {[timedOut |-> FALSE, exitCode |-> 1, stdout |-> [parses |-> FALSE]]}
    \cup {[timedOut |-> FALSE, exitCode |-> 0, stdout |-> [parses |-> FALSE]]}
    \cup {[timedOut |-> FALSE, exitCode |-> 0,
           stdout |-> [parses |-> TRUE, width |-> d.width, height |-> d.height]]
            : d \in D}

\* What measuring a file without a readable header meets: a run of identify.
IdentifyProbes(D) == {[header |-> Null, identify |-> r] : r \in IdentifyRuns(D)}

\* What measuring a PNG or JPEG file can meet: a header that parses (identify
\* is not run), or no header result and a run of identify.
Probes(D) == {[header |-> d, identify |-> Null] : d \in D} \cup IdentifyProbes(D)

\* readDimensionsViaIdentify once exec has resolved with run r.
readDimensionsViaIdentify(r) ==
    IF r.exitCode # 0
      THEN DimsOf(0, 0)
      ELSE IF r.stdout.parses
             THEN DimsOf(r.stdout.width, r.stdout.height)
             ELSE DimsOf(0, 0)

\* getImageDimensions(filePath) on a file with extension ext, in a world
\* where reading it behaves as `probe`: the dimensions, or the rejection of
\* exec when identify times out.
getImageDimensions(ext, probe) ==
    IF ext \in {"png", "jpg", "jpeg"} /\ probe.header # Null
      THEN [threw |-> FALSE, dims |-> probe.header]
      ELSE IF probe.identify.timedOut
             THEN [threw |-> TRUE]
             ELSE [threw |-> FALSE,
                   dims |-> readDimensionsViaIdentify(probe.identify)]

\* What getImageDimensions can settle with on a file with extension ext whose
\* size is one of D.
Measurements(ext, D) ==
    {getImageDimensions(ext, p) :
       p \in IF ext \in {"png", "jpg", "jpeg"} THEN Probes(D) ELSE IdentifyProbes(D)}

\* What went wrong when measuring `page` settled with `got`: identify timed
\* out, or no size could be read (no header result, and identify exited
\* non-zero or printed something else than a size).
MeasureFaults(stage, page, got) ==
    IF got.threw
      THEN {<<stage, page, "timeout">>}
      ELSE IF got.dims = DimsOf(0, 0) THEN {<<stage, page, "unreadable">>} ELSE {}

\* ------------------------------------------------------ image header parsing

\* const PNG_SIGNATURE = Buffer.from([0x89, 0x50, 0x4e, 0x47, 0x0d, 0x0a, 0x1a, 0x0a])
PNG_SIGNATURE == <<137, 80, 78, 71, 13, 10, 26, 10>>

\* const JPEG_SOI = 0xffd8
JPEG_SOI == 65496

\* Buffer.alloc(24), Buffer.alloc(65536): the bytes asked of fh.read.
PngReadBytes == 24
JpegReadBytes == 65536

\* buf[off] of a zero-filled buffer holding `bytes` from offset 0.
ByteAt(bytes, off) == IF off < Len(bytes) THEN bytes[off + 1] ELSE 0

\* const { bytesRead } = await fh.read(buf, 0, size, 0)
bytesReadOf(bytes, size) == Min(Len(bytes), size)

\* buf.readUInt16BE(off)
readUInt16BE(bytes, off) == ByteAt(bytes, off) * 256 + ByteAt(bytes, off + 1)

readUInt32LE(bytes, off) ==
    ((ByteAt(bytes, off + 3) * 256 + ByteAt(bytes, off + 2)) * 256
        + ByteAt(bytes, off + 1)) * 256 + ByteAt(bytes, off)

\* buf.readUInt32BE(off)
readUInt32BE(bytes, off) ==
    ((ByteAt(bytes, off) * 256 + ByteAt(bytes, off + 1)) * 256
        + ByteAt(bytes, off + 2)) * 256 + ByteAt(bytes, off + 3)

\* readPngDimensions on a file: null when it cannot be opened, is shorter
\* than 24 bytes or does not start with the signature.
readPngDimensions(file) ==
    IF ~file.readable
      THEN Null
      ELSE IF bytesReadOf(file.bytes, PngReadBytes) < 24
        THEN Null
        ELSE IF SubSeq(file.bytes, 1, 8) # PNG_SIGNATURE
          THEN Null
          ELSE DimsOf(readUInt32BE(file.bytes, 16), readUInt32BE(file.bytes, 20))

RECURSIVE scanMarkers(_, _, _)
\* The while loop of readJpegDimensions from `offset` on.
scanMarkers(bytes, bytesRead, offset) ==
    IF ~(offset + 9 < bytesRead)
      THEN Null
      ELSE IF ByteAt(bytes, offset) # 255
        THEN Null
        ELSE LET marker == ByteAt(bytes, offset + 1)
             IN  IF marker = 255
                   THEN scanMarkers(bytes, bytesRead, offset + 1)
                   ELSE IF marker = 192 \/ marker = 194
                     THEN DimsOf(readUInt16BE(bytes, offset + 7),
                                 readUInt16BE(bytes, offset + 5))
                     ELSE IF marker = 218
                       THEN Null
                       ELSE scanMarkers(bytes, bytesRead,
                                        offset + 2 + readUInt16BE(bytes, offset + 2))

\* readJpegDimensions on a file.
readJpegDimensions(file) ==
    IF ~file.readable
      THEN Null
      ELSE IF bytesReadOf(file.bytes, JpegReadBytes) < 4
        THEN Null
        ELSE IF readUInt16BE(file.bytes, 0) # JPEG_SOI
          THEN Null
          ELSE scanMarkers(file.bytes, bytesReadOf(file.bytes, JpegReadBytes), 2)

\* filePath.toLowerCase(), on the extension.
toLowerCase(ext) ==
    CASE ext = "PNG" -> "png"
      [] ext = "JPEG" -> "jpeg"
      [] OTHER -> ext

\* The header result getImageDimensions gets for a file before it falls back.
headerOf(ext, file) ==
    IF toLowerCase(ext) = "png"
      THEN readPngDimensions(file)
      ELSE IF toLowerCase(ext) \in {"jpg", "jpeg"}
        THEN readJpegDimensions(file)
        ELSE Null

\* ------------------------------------------------------------ renderPageRange

\* Array.from({ length: lastPage - firstPage + 1 }, (_, i) => firstPage + i)
PageRange(firstPage, lastPage) ==
    [i \in 1..(lastPage - firstPage + 1) |-> firstPage + i - 1]

retryAllowedTwice(retryCount) == retryCount < 2

\* if (retryCount < 1)
retryAllowed(retryCount) == retryCount < 1


\* return { success: [], failed }
chunkFailed(op) ==
    [success |-> <<>>, failed |-> PageRange(op.firstPage, op.lastPage)]

\* return { success, failed: [] }
chunkSucceeded(op) ==
    [success |-> PageRange(op.firstPage, op.lastPage), failed |-> <<>>]

\* One more entry of the rasterizer log of chunk i: an invocation under way.
LogRun(log, i, op) ==
    [log EXCEPT ![i] = Append(@, [first |-> op.firstPage, last |-> op.lastPage,
                                  exit |-> "running"])]

\* The invocation under way for chunk i has ended with `exit`.
LogExit(log, i, exit) ==
    [log EXCEPT ![i] = [@ EXCEPT ![Len(@)].exit = exit]]

\* No document is being planned.
PlanIdle ==
    /\ pageCount = 0
    /\ options = [dpi |-> 0, concurrency |-> 0, format |-> "png"]
    /\ chunks = <<>>
    /\ pageSizePts = Null
    /\ extractEnabled = FALSE
    /\ pageSizes = {}
    /\ unit = Null

\* No run of main is under way.
RunIdle ==
    /\ opState = <<>>
    /\ pageFiles = <<>>
    /\ errors = <<>>
    /\ rendered = Null
    /\ processed = Null
    /\ extracted = Null
    /\ manifest = Null
    /\ rasterLog = <<>>
    /\ measuredPages = {}
    /\ spotChecked = Null
    /\ faults = {}
    /\ running = {}
    /\ magickRuns = <<>>
    /\ deleted = {}

\* ------------------------------------------------------------------ renderPdf

\* The pages whose operation a worker has started in this step, coming back
\* for a further item.
NewlyStartedPages == {items[i + 1].index : i \in startedOps' \ startedOps}

\* The pages whose operation the workers of a new batch start with.
FirstStartedPages == {items'[i + 1].index : i \in startedOps'}

\* main calls processPages(pagesDir, result.pages, options.concurrency),
\* which calls batchExec over the pages.
BeginProcess(pages) ==
    /\ StartBatch(pages, options.concurrency)
    /\ FreshOps("process")
    /\ phase' = "process"

\* renderPdf returns { pages, errors, toolchain } to main, which goes on to
\* processPages.
ReturnRendered(res, spot) ==
    /\ rendered' = res
    /\ pageFiles' = <<>>
    /\ errors' = <<>>
    /\ IF entry = "main"
         THEN /\ BeginProcess(res.pages)
              /\ rasterLog' = <<>>
              /\ measuredPages' = {}
              /\ spotChecked' = Null
         ELSE /\ UNCHANGED <<rasterLog, measuredPages, magickRuns>>
              /\ spotChecked' = spot
              /\ running' = running \ SpotOps
              /\ ResetBatch
              /\ opState' = <<>>
              /\ phase' = "rendered"

\* A run of main on a PDF: detection is done, renderPdf is about to read the
\* PDF's metadata.
RunInit ==
    /\ phase = "start"
    /\ pageCount \in 1..MaxPages
    /\ options \in [dpi : {Dpi}, concurrency : 1..MaxRunConcurrency, format : {"png"}]
    /\ pageSizePts \in {Null, PagePts}
    /\ extractEnabled \in BOOLEAN
    /\ entry = "main"
    /\ unit = Null
    /\ pageSizes = {PredictedDims(PagePts, Dpi)}
    /\ chunks = <<>>
    /\ BatchIdle
    /\ RunIdle

\* getPdfInfo throws (pdfinfo timed out, or printed no "Pages:" line): the
\* rejection reaches main().catch, which exits with status 1.
GetPdfInfoFails ==
    /\ phase = "start"
    /\ phase' = "fatal"
    /\ UNCHANGED <<batchVars, probeVars, planVars, effectVars, runVars, traceVars>>

\* getPdfInfo returns; renderPdf splits the pages into chunks and starts
\* batchExec(chunks, renderPageRange, chunks.length).
RenderStart ==
    /\ phase = "start"
    /\ chunks' = chunkPages(pageCount, options.concurrency)
    /\ StartBatch(chunks', Len(chunks'))
    /\ FreshOps("render")
    /\ rasterLog' = [i \in 0..(Len(chunks') - 1) |->
                       IF i \in startedOps'
                         THEN <<[first |-> chunks'[i + 1].first,
                                 last |-> chunks'[i + 1].last, exit |-> "running"]>>
                         ELSE <<>>]
    /\ phase' = "render"
    /\ UNCHANGED <<pageCount, options, pageSizePts, extractEnabled, entry, pageSizes>>
    /\ UNCHANGED <<pageFiles, errors, rendered, processed, extracted, manifest>>
    /\ UNCHANGED <<measuredPages, spotChecked, faults, unit, deleted>>

\* The log once worker w has gone on to its next chunk, if it has.
LogNextRun(log, w) ==
    IF workers'[w].st = "awaiting"
      THEN LogRun(log, workers'[w].index, opState'[w])
      ELSE log

\* pdftoppm exits with status 0: renderPageRange reports the whole range as
\* rendered.
PdftoppmExitZero ==
    /\ phase = "render" /\ callState = "pending"
    /\ \E w \in Awaiting :
          /\ WorkerResume(w, chunkSucceeded(opState[w]))
          /\ NextOp(w, "render")
          /\ rasterLog' = LogNextRun(LogExit(rasterLog, workers[w].index, "exit0"), w)
    /\ UNCHANGED <<phase, planVars, deleted, measuredPages, spotChecked, faults>>
    /\ UNCHANGED <<pageFiles, errors, rendered, processed, extracted, manifest>>

\* pdftoppm exits with a non-zero status: renderPageRange calls itself once
\* more with retryCount + 1, or, on the retry, reports the whole range as
\* failed.
PdftoppmExitNonZero ==
    /\ phase = "render" /\ callState = "pending"
    /\ \E w \in Awaiting :
          IF retryAllowed(opState[w].retryCount)
            THEN /\ opState' = [opState EXCEPT ![w].retryCount = @ + 1]
                 /\ rasterLog' = LogRun(LogExit(rasterLog, workers[w].index, "exit1"),
                                        workers[w].index, opState[w])
                 /\ UNCHANGED <<batchVars, probeVars, faults, running, magickRuns>>
            ELSE /\ WorkerResume(w, chunkFailed(opState[w]))
                 /\ NextOp(w, "render")
                 /\ rasterLog' = LogNextRun(LogExit(rasterLog, workers[w].index, "exit1"), w)
                 /\ faults' = faults \cup
                       {<<"render", p, "exit">> :
                          p \in opState[w].firstPage..opState[w].lastPage}
    /\ UNCHANGED <<phase, planVars, deleted, measuredPages, spotChecked>>
    /\ UNCHANGED <<pageFiles, errors, rendered, processed, extracted, manifest>>

\* pdftoppm runs into the 600000 ms timeout: exec kills it and rejects,
\* renderPageRange rejects, and batchExec throws.
PdftoppmTimeout ==
    /\ phase = "render" /\ callState = "pending"
    /\ \E w \in Awaiting :
          /\ WorkerThrow(w)
          /\ rasterLog' = LogExit(rasterLog, workers[w].index, "timeout")
          /\ running' = running \ {<<"render", workers[w].index>>}
          /\ faults' = faults \cup
                {<<"render", p, "timeout">> :
                   p \in opState[w].firstPage..opState[w].lastPage}
    /\ UNCHANGED <<phase, planVars, runVars, measuredPages, spotChecked>>
    /\ UNCHANGED <<magickRuns, deleted>>

\* allFailed.push(...failed) over the chunk results.
AllFailed(rs) == UNION {Range(rs[k].failed) : k \in 1..Len(rs)}

\* for (let i = 1; i <= pageCount; i++) if (allFailed.includes(i)) errors.push(...)
RenderErrors(count, failed) ==
    LET IsFailed(i) == i \in failed
        bad == SelectSeq([i \in 1..count |-> i], IsFailed)
    IN  [k \in 1..Len(bad) |-> [index |-> bad[k], error |-> "render failed"]]

\* ... else pageFiles.push({ index: i, file: outputFile, path: fullPath })
RenderedFiles(count, failed, format) ==
    LET IsDone(i) == i \notin failed
        good == SelectSeq([i \in 1..count |-> i], IsDone)
    IN  [k \in 1..Len(good) |->
           [index |-> good[k], file |-> PageFile(good[k], format),
            path |-> [dir |-> "pages", file |-> PageFile(good[k], format)]]]


\* if (pageSizePts && pageFiles.length >= 2)
spotCheckApplies(sizePts, files) == sizePts # Null /\ Len(files) >= 2

\* batchExec over the chunks has returned: renderPdf merges the chunk
\* results into errors and pageFiles, and either starts the spot-check of the
\* first and last rendered page or measures every page.
RenderMerge ==
    /\ phase = "render" /\ callState = "returned"
    /\ LET failed == AllFailed(ResultSeq)
           files  == RenderedFiles(pageCount, failed, options.format)
       IN  /\ errors' = RenderErrors(pageCount, failed)
           /\ pageFiles' = files
           /\ IF spotCheckApplies(pageSizePts, files)
                THEN /\ ResetBatch
                     /\ opState' = <<>>
                     /\ measuredPages' = {files[1].index, files[Len(files)].index}
                     /\ running' = running \cup SpotOps
                     /\ UNCHANGED magickRuns
                     /\ phase' = "spotcheck"
                ELSE /\ StartBatch(files, options.concurrency)
                     /\ FreshOps("measure")
                     /\ measuredPages' = FirstStartedPages
                     /\ phase' = "measure"
    /\ UNCHANGED <<planVars, deleted, rendered, processed, extracted, manifest>>
    /\ UNCHANGED <<rasterLog, spotChecked, faults>>

dimsMatchWidthOnly(firstDims, lastDims, predicted) ==
    /\ firstDims.width = predicted.width
    /\ lastDims.width = predicted.width

\* firstDims.width === predicted.width && firstDims.height === predicted.height
\* && lastDims.width === predicted.width && lastDims.height === predicted.height
dimsMatch(firstDims, lastDims, predicted) ==
    /\ firstDims.width = predicted.width
    /\ firstDims.height = predicted.height
    /\ lastDims.width = predicted.width
    /\ lastDims.height = predicted.height

\* for (const pf of pageFiles) pages.push({ ..., width: predictedDims.width, ... })
PredictedPages(files, predicted) ==
    [k \in 1..Len(files) |->
       [index |-> files[k].index, file |-> files[k].file,
        width |-> predicted.width, height |-> predicted.height]]

\* Both spot-check measurements have settled.  A rejected one (identify
\* timed out) rejects renderPdf; matching ones make renderPdf return the
\* predicted size for every page; otherwise every page is measured.
SpotCheck ==
    /\ phase = "spotcheck"
    /\ \E first, last \in Measurements(options.format, pageSizes) :
          LET predicted == PredictedDims(pageSizePts, options.dpi)
          IN  IF first.threw \/ last.threw
                THEN /\ phase' = "fatal"
                     /\ faults' = faults
                          \cup (IF first.threw
                                  THEN {<<"spotcheck", pageFiles[1].index, "timeout">>}
                                  ELSE {})
                          \cup (IF last.threw
                                  THEN {<<"spotcheck", pageFiles[Len(pageFiles)].index,
                                          "timeout">>}
                                  ELSE {})
                     /\ spotChecked' = [first |-> first, last |-> last]
                     /\ UNCHANGED <<batchVars, probeVars, opState, rendered, measuredPages>>
                     /\ UNCHANGED <<pageFiles, errors, rasterLog, running, magickRuns>>
                ELSE IF dimsMatch(first.dims, last.dims, predicted)
                       THEN /\ ReturnRendered([pages |-> PredictedPages(pageFiles, predicted),
                                               errors |-> errors],
                                              [first |-> first, last |-> last])
                            /\ UNCHANGED faults
                       ELSE /\ StartBatch(pageFiles, options.concurrency)
                            /\ FreshOps("measure")
                            /\ measuredPages' = measuredPages \cup FirstStartedPages
                            /\ spotChecked' = [first |-> first, last |-> last]
                            /\ phase' = "measure"
                            /\ UNCHANGED <<faults, rendered, pageFiles, errors>>
                            /\ UNCHANGED rasterLog
    /\ UNCHANGED <<planVars, deleted, processed, extracted, manifest>>

\* The per-item function of the measuring batch: getImageDimensions inside
\* try/catch.
measureResult(pageFile, got) ==
    IF got.threw
      THEN [success |-> FALSE, pageFile |-> pageFile]
      ELSE [success |-> TRUE, pageFile |-> pageFile, dims |-> got.dims]

\* The measurement of one page settles.
MeasureSettle ==
    /\ phase = "measure" /\ callState = "pending"
    /\ \E w \in Awaiting :
       \E got \in Measurements(items[workers[w].index + 1].file.ext, pageSizes) :
          LET pageFile == items[workers[w].index + 1]
          IN  /\ WorkerResume(w, measureResult(pageFile, got))
              /\ NextOp(w, "measure")
              /\ measuredPages' = measuredPages \cup NewlyStartedPages
              /\ faults' = faults \cup MeasureFaults("measure", pageFile.index, got)
    /\ UNCHANGED <<phase, planVars, deleted, rasterLog, spotChecked>>
    /\ UNCHANGED <<pageFiles, errors, rendered, processed, extracted, manifest>>

\* for (const result of dimensionResults) if (result.success) pages.push(...)
MeasuredPages(rs) ==
    LET IsOk(r) == r.success
        ok == SelectSeq(rs, IsOk)
    IN  [k \in 1..Len(ok) |->
           [index |-> ok[k].pageFile.index, file |-> ok[k].pageFile.file,
            width |-> ok[k].dims.width, height |-> ok[k].dims.height]]

\* ... else errors.push({ index: result.pageFile.index, error: 'failed to read output' })
MeasureErrors(rs) ==
    LET IsErr(r) == ~r.success
        bad == SelectSeq(rs, IsErr)
    IN  [k \in 1..Len(bad) |->
           [index |-> bad[k].pageFile.index, error |-> "failed to read output"]]

\* The measuring batch has returned: renderPdf returns.
MeasureDone ==
    /\ phase = "measure" /\ callState = "returned"
    /\ ReturnRendered([pages |-> MeasuredPages(ResultSeq),
                       errors |-> errors \o MeasureErrors(ResultSeq)],
                      spotChecked)
    /\ UNCHANGED <<planVars, deleted, processed, extracted, manifest, faults>>

\* --------------------------------------------------------------- processPages

\* return { success: false, error: { index: page.index, error: ... } }
pageFailure(page, message) ==
    [success |-> FALSE, error |-> [index |-> page.index, error |-> message]]

processedPageKeepingSize(page, dims) ==
    [success |-> TRUE,
     page |-> [index |-> page.index, file |-> SwapExt(page.file, "png", "webp"),
               width |-> page.width, height |-> page.height]]

\* return { success: true, page: { index, file: outputFile, width, height } }
processedPage(page, dims) ==
    [success |-> TRUE,
     page |-> [index |-> page.index, file |-> SwapExt(page.file, "png", "webp"),
               width |-> dims.width, height |-> dims.height]]

\* magick exits with status 0: the per-item function goes on to measure the
\* normalized file.
MagickExitZero ==
    /\ phase = "process" /\ callState = "pending"
    /\ \E w \in Awaiting :
          /\ opState[w].step = "magick"
          /\ opState' = [opState EXCEPT ![w] = [step |-> "getImageDimensions"]]
    /\ UNCHANGED <<batchVars, probeVars, phase, planVars, effectVars, traceVars>>
    /\ UNCHANGED <<pageFiles, errors, rendered, processed, extracted, manifest>>

\* magick exits with a non-zero status: the page's result is an error.
MagickExitNonZero ==
    /\ phase = "process" /\ callState = "pending"
    /\ \E w \in Awaiting :
          /\ opState[w].step = "magick"
          /\ WorkerResume(w, pageFailure(items[workers[w].index + 1],
                                         "magick processing failed"))
          /\ NextOp(w, "process")
          /\ faults' = faults \cup {<<"process", items[workers[w].index + 1].index, "exit">>}
    /\ UNCHANGED <<phase, planVars, deleted, rasterLog, measuredPages, spotChecked>>
    /\ UNCHANGED <<pageFiles, errors, rendered, processed, extracted, manifest>>

\* magick runs into exec's timeout: exec rejects outside any try block, the
\* per-item function rejects and batchExec throws.
MagickTimeout ==
    /\ phase = "process" /\ callState = "pending"
    /\ \E w \in Awaiting :
          /\ opState[w].step = "magick"
          /\ WorkerThrow(w)
          /\ faults' = faults
                \cup {<<"process", items[workers[w].index + 1].index, "timeout">>}
          /\ running' = running \ {<<"process", workers[w].index>>}
    /\ UNCHANGED <<phase, planVars, runVars, rasterLog, measuredPages, spotChecked>>
    /\ UNCHANGED <<magickRuns, deleted>>

\* getImageDimensions(outputPath) settles, inside try: its rejection
\* (identify timed out) is caught and becomes the page's error; otherwise
\* the function goes on to unlink(inputPath).
ProcessDimsSettle ==
    /\ phase = "process" /\ callState = "pending"
    /\ \E w \in Awaiting, got \in Measurements("webp", NormalizedSizes) :
          LET page == items[workers[w].index + 1]
          IN  /\ opState[w].step = "getImageDimensions"
              /\ IF got.threw
                   THEN /\ WorkerResume(w, pageFailure(page, "Command timed out"))
                        /\ NextOp(w, "process")
                        /\ faults' = faults \cup MeasureFaults("process", page.index, got)
                   ELSE /\ opState' = [opState EXCEPT ![w] =
                                         [step |-> "unlink", dims |-> got.dims]]
                        /\ faults' = faults \cup MeasureFaults("process", page.index, got)
                        /\ UNCHANGED <<batchVars, probeVars, running, magickRuns>>
    /\ UNCHANGED <<phase, planVars, deleted, rasterLog, measuredPages, spotChecked>>
    /\ UNCHANGED <<pageFiles, errors, rendered, processed, extracted, manifest>>

\* unlink(inputPath) settles, inside the same try: the page is a success
\* when it fulfils, and an error with unlink's message when it rejects.
UnlinkSettle ==
    /\ phase = "process" /\ callState = "pending"
    /\ \E w \in Awaiting, unlinked \in BOOLEAN :
          LET page == items[workers[w].index + 1]
          IN  /\ opState[w].step = "unlink"
              /\ WorkerResume(w, IF unlinked
                                   THEN processedPage(page, opState[w].dims)
                                   ELSE pageFailure(page, "unlink failed"))
              /\ NextOp(w, "process")
              /\ faults' = IF unlinked
                              THEN faults
                              ELSE faults \cup {<<"process", page.index, "unlink">>}
              /\ deleted' = IF unlinked THEN deleted \cup {page.index} ELSE deleted
    /\ UNCHANGED <<phase, planVars, rasterLog, measuredPages, spotChecked>>
    /\ UNCHANGED <<pageFiles, errors, rendered, processed, extracted, manifest>>

\* ---------------------------------------------------------------- manifest

\* The provenance renderPdf reports.
Toolchain == [renderer |-> "pdftoppm", version |-> "unknown"]

createManifestCountingPages(input) ==
    [source |-> input.source,
     pageCount |-> Len(input.pages),
     dpi |-> input.dpi,
     format |-> input.format,
     pages |-> input.pages,
     errors |-> input.errors,
     toolchain |-> input.toolchain]

\* createManifest(input)
createManifest(input) ==
    [source |-> input.source,
     pageCount |-> Len(input.pages) + Len(input.errors),
     dpi |-> input.dpi,
     format |-> input.format,
     pages |-> input.pages,
     errors |-> input.errors,
     toolchain |-> input.toolchain]

MainManifestWithoutExtractionErrors(finalPages, processErrors, extractionErrors) ==
    createManifest([source |-> "book.pdf", dpi |-> options.dpi, format |-> "webp",
                    pages |-> finalPages,
                    errors |-> rendered.errors \o processErrors,
                    toolchain |-> Toolchain])

MainManifestNormalizeFirst(finalPages, processErrors, extractionErrors) ==
    createManifest([source |-> "book.pdf", dpi |-> options.dpi, format |-> "webp",
                    pages |-> finalPages,
                    errors |-> processErrors \o rendered.errors \o extractionErrors,
                    toolchain |-> Toolchain])

\* const allErrors = [...result.errors, ...processed.errors, ...extractionErrors]
\* and the manifest main creates from it and hands to writeManifest.
MainManifest(finalPages, processErrors, extractionErrors) ==
    createManifest([source |-> "book.pdf", dpi |-> options.dpi, format |-> "webp",
                    pages |-> finalPages,
                    errors |-> rendered.errors \o processErrors \o extractionErrors,
                    toolchain |-> Toolchain])

\* batchExec of processPages has returned: processPages returns pages and
\* errors, and main either starts extractPages or, without an API key,
\* writes the manifest.
ProcessDone ==
    /\ phase = "process" /\ callState = "returned"
    /\ processed' = [pages |-> PagesOf(ResultSeq), errors |-> ErrorsOf(ResultSeq)]
    /\ IF extractEnabled
         THEN /\ StartBatch(processed'.pages, options.concurrency)
              /\ FreshOps("extract")
              /\ phase' = "extract"
              /\ UNCHANGED manifest
         ELSE /\ ResetBatch
              /\ opState' = <<>>
              /\ UNCHANGED <<running, magickRuns>>
              /\ manifest' = MainManifest(processed'.pages, processed'.errors, <<>>)
              /\ phase' = "written"
    /\ UNCHANGED <<planVars, deleted, pageFiles, errors, rendered, extracted, traceVars>>

\* --------------------------------------------------------------- extractPages

\* What extractPage can do for a page: return its text file and the crops of
\* its image regions, or throw (a failing or timed-out tesseract or magick
\* crop, a failing text generation, a failing write).
ExtractOutcomes ==
    {[threw |-> FALSE, images |-> n] : n \in 0..1}
    \cup {[threw |-> TRUE, timedOut |-> t] : t \in BOOLEAN}

\* `${pageStem}-img-${String(imgCounter).padStart(2, '0')}.webp`
CropFile(page, n) ==
    [stem |-> SwapExt(page.file, "webp", "md").stem \o <<"img", n>>, ext |-> "webp"]

extractResultWithoutSize(page, out) ==
    IF out.threw
      THEN [success |-> FALSE, page |-> page,
            error |-> [index |-> page.index, error |-> "text extraction failed"]]
      ELSE [success |-> TRUE,
            page |-> [index |-> page.index, file |-> page.file,
                      textFile |-> SwapExt(page.file, "webp", "md"),
                      imageFiles |-> [n \in 1..out.images |-> CropFile(page, n)]]]

\* The per-item function of extractPages: extractPage inside try/catch.
extractResult(page, out) ==
    IF out.threw
      THEN [success |-> FALSE, page |-> page,
            error |-> [index |-> page.index, error |-> "text extraction failed"]]
      ELSE [success |-> TRUE,
            page |-> [index |-> page.index, file |-> page.file,
                      width |-> page.width, height |-> page.height,
                      textFile |-> SwapExt(page.file, "webp", "md"),
                      imageFiles |-> [n \in 1..out.images |-> CropFile(page, n)]]]

\* extractPage settles for one page.
ExtractSettle ==
    /\ phase = "extract" /\ callState = "pending"
    /\ \E w \in Awaiting, out \in ExtractOutcomes :
          LET page == items[workers[w].index + 1]
          IN  /\ WorkerResume(w, extractResult(page, out))
              /\ NextOp(w, "extract")
              /\ faults' = IF out.threw
                              THEN faults \cup {<<"extract", page.index,
                                                  IF out.timedOut THEN "timeout"
                                                                  ELSE "error">>}
                              ELSE faults
    /\ UNCHANGED <<phase, planVars, deleted, rasterLog, measuredPages, spotChecked>>
    /\ UNCHANGED <<pageFiles, errors, rendered, processed, extracted, manifest>>

\* batchExec of extractPages has returned: extractPages returns, and main
\* writes the manifest.
ExtractDone ==
    /\ phase = "extract" /\ callState = "returned"
    /\ extracted' = [pages |-> PagesOf(ResultSeq), errors |-> ErrorsOf(ResultSeq)]
    /\ ResetBatch
    /\ opState' = <<>>
    /\ manifest' = MainManifest(extracted'.pages, processed.errors, extracted'.errors)
    /\ phase' = "written"
    /\ UNCHANGED <<planVars, effectVars, pageFiles, errors, rendered, processed, traceVars>>

\* ------------------------------------------------------------------------ main

\* A batchExec call has thrown: the stage rejects, main rejects, and
\* main().catch prints 'Fatal error' and calls process.exit(1), which ends
\* the operations still running.
Fatal ==
    /\ phase \in {"render", "process", "extract", "measure"}
    /\ callState = "thrown"
    /\ phase' = "fatal"
    /\ UNCHANGED <<batchVars, probeVars, planVars, effectVars, runVars, traceVars>>

Next ==
    \/ GetPdfInfoFails
    \/ RenderStart
    \/ PdftoppmExitZero
    \/ PdftoppmExitNonZero
    \/ PdftoppmTimeout
    \/ RenderMerge
    \/ SpotCheck
    \/ MeasureSettle
    \/ MeasureDone
    \/ MagickExitZero
    \/ MagickExitNonZero
    \/ MagickTimeout
    \/ ProcessDimsSettle
    \/ UnlinkSettle
    \/ ProcessDone
    \/ ExtractSettle
    \/ ExtractDone
    \/ Fatal

Spec == RunInit /\ [][Next]_vars

\* --------------------------------------------------------- renderPdf on its own

\* renderPdf(pdfPath, outputDir, options) called on a PDF whose rendered page
\* files can differ from the predicted size.
RenderInit ==
    /\ phase = "start"
    /\ pageCount \in 1..MaxRenderPages
    /\ options \in [dpi : {Dpi}, concurrency : 1..MaxRenderConcurrency, format : {"png"}]
    /\ pageSizePts \in {Null, PagePts}
    /\ extractEnabled = FALSE
    /\ entry = "renderPdf"
    /\ unit = Null
    /\ pageSizes = RenderedSizes
    /\ chunks = <<>>
    /\ BatchIdle
    /\ RunIdle

RenderNext ==
    \/ GetPdfInfoFails
    \/ RenderStart
    \/ PdftoppmExitZero
    \/ PdftoppmExitNonZero
    \/ PdftoppmTimeout
    \/ RenderMerge
    \/ SpotCheck
    \/ MeasureSettle
    \/ MeasureDone
    \/ Fatal

SpecRender == RenderInit /\ [][RenderNext]_vars


\* ------------------------------------------------------------------- chopPage

\* A level-2 row of the layout report with the level-5 words of its block.
Block(left, top, width, height, words) ==
    [left |-> left, top |-> top, width |-> width, height |-> height, words |-> words]

\* The block geometries of the reports: a block at the top, one 79 and one 80
\* pixels below it, one beside it, one below it inside the bounding box of
\* the two, a tall one, one 79 pixels below the tall one, and one to the
\* right of the block beside the first, with the same top.
Geometries ==
    { <<0, 0, 50, 100>>, <<0, 179, 50, 100>>, <<0, 180, 50, 100>>,
      <<60, 10, 50, 100>>, <<0, 102, 50, 60>>, <<0, 0, 50, 300>>,
      <<0, 379, 50, 100>>, <<120, 10, 50, 100>> }

\* The words of a block: one blank word, or one word of text.
WordLists == { <<"">>, <<"word">> }

Blocks == {Block(g[1], g[2], g[3], g[4], ws) : g \in Geometries, ws \in WordLists}

hasTextAnyWord(words) == words # <<>>

\* const hasText = words.some(w => w.length > 0)
hasText(words) == \E k \in 1..Len(words) : words[k] # ""

\* regions.push({ x, y, width, height, kind: hasText ? 'text' : 'image' })
regionOf(block) ==
    [x |-> block.left, y |-> block.top, width |-> block.width,
     height |-> block.height, kind |-> IF hasText(block.words) THEN "text" ELSE "image"]

\* (a, b) => a.y - b.y || a.x - b.x  is positive
sortsAfter(a, b) == a.y > b.y \/ (a.y = b.y /\ a.x > b.x)

\* r put into the sorted sequence `sorted`, behind the elements it does not
\* precede (the sort is stable).
InsertSorted(sorted, r) ==
    LET k == Cardinality({j \in 1..Len(sorted) : ~sortsAfter(sorted[j], r)})
    IN  SubSeq(sorted, 1, k) \o <<r>> \o SubSeq(sorted, k + 1, Len(sorted))

RECURSIVE sortRegions(_)
\* regions.sort((a, b) => a.y - b.y || a.x - b.x)
sortRegions(regions) ==
    IF regions = <<>>
      THEN <<>>
      ELSE InsertSorted(sortRegions(SubSeq(regions, 1, Len(regions) - 1)),
                        regions[Len(regions)])

mergesWithinEighty(prev, region) ==
    /\ prev # Null
    /\ prev.kind = "text"
    /\ region.kind = "text"
    /\ region.y - (prev.y + prev.height) <= 80

\* prev && prev.kind === 'text' && region.kind === 'text'
\* && region.y - (prev.y + prev.height) < 80
merges(prev, region) ==
    /\ prev # Null
    /\ prev.kind = "text"
    /\ region.kind = "text"
    /\ region.y - (prev.y + prev.height) < 80

\* prev after the assignments of the merge branch.
mergedRegion(prev, region) ==
    LET minX == Min(prev.x, region.x)
        minY == Min(prev.y, region.y)
        maxRight == Max(prev.x + prev.width, region.x + region.width)
        maxBottom == Max(prev.y + prev.height, region.y + region.height)
    IN  [x |-> minX, y |-> minY, width |-> maxRight - minX,
         height |-> maxBottom - minY, kind |-> prev.kind]

\* One iteration of `for (const region of regions)`: merged after it.
mergeStep(merged, region) ==
    LET prev == IF merged = <<>> THEN Null ELSE merged[Len(merged)]
    IN  IF merges(prev, region)
          THEN [merged EXCEPT ![Len(merged)] = mergedRegion(prev, region)]
          ELSE Append(merged, region)

RECURSIVE mergeTrace(_, _, _)
\* The value of `merged` after each iteration of the loop over regions[i..].
mergeTrace(regions, i, merged) ==
    IF i > Len(regions)
      THEN <<>>
      ELSE LET next == mergeStep(merged, regions[i])
           IN  <<next>> \o mergeTrace(regions, i + 1, next)

\* chopPage on a report with the blocks `blocks`: the regions in reading
\* order, the value of merged after each iteration, and the regions returned.
chopPage(blocks) ==
    LET sorted == sortRegions([k \in 1..Len(blocks) |-> regionOf(blocks[k])])
        trace == mergeTrace(sorted, 1, <<>>)
    IN  [blocks |-> blocks, sorted |-> sorted, trace |-> trace,
         regions |-> IF trace = <<>> THEN <<>> ELSE trace[Len(trace)]]

\* chopPage on its own: any report of up to MaxBlocks blocks.
ChopInit ==
    /\ phase = "chop.input"
    /\ entry = "chopPage"
    /\ unit \in {[blocks |-> bs] : bs \in SeqsUpTo(Blocks, MaxBlocks)}
    /\ pageCount = 0
    /\ options = [dpi |-> 0, concurrency |-> 0, format |-> "png"]
    /\ chunks = <<>>
    /\ pageSizePts = Null
    /\ extractEnabled = FALSE
    /\ pageSizes = {}
    /\ BatchIdle
    /\ RunIdle

ChopCall ==
    /\ phase = "chop.input"
    /\ unit' = chopPage(unit.blocks)
    /\ phase' = "chop.done"
    /\ UNCHANGED <<pageCount, options, chunks, pageSizePts, extractEnabled, entry>>
    /\ UNCHANGED <<pageSizes, batchVars, probeVars, runVars, traceVars, effectVars>>

ChopNext == ChopCall

SpecChop == ChopInit /\ [][ChopNext]_vars

\* ---------------------------------------------------------------- extractPage

\* The page handed to extractPage on its own: page 1 as processPages returns it.
ExtractedPage ==
    processedPage([index |-> 1, file |-> PageFile(1, "png")], DimsOf(Dpi, Dpi)).page

\* The kinds of region chopPage returns.
RegionKinds == {"text", "image"}

\* The texts generateText returns for a text crop.
Texts == {"", "alpha", "beta"}

TextCropFileUnscoped(page, n) == [stem |-> <<"text", n>>, ext |-> "webp"]

\* const cropName = `${pageStem}-text-${String(mdParts.length).padStart(2, '0')}.webp`
TextCropFile(page, n) ==
    [stem |-> SwapExt(page.file, "webp", "md").stem \o <<"text", n>>, ext |-> "webp"]

\* The paths the in-flight operation op = <<stage, i>> of the running batch
\* writes or deletes: pdftoppm writes the page files of its chunk; the
\* per-item function of processPages writes outputPath and deletes
\* inputPath; extractPage writes the image crops, writes and deletes the
\* text crops, and writes the text file of its page. Measuring only reads.
WriteTargets(op) ==
    LET item == items[op[2] + 1]
    IN  CASE op[1] = "render" ->
               {PageFile(i, options.format) : i \in item.first..item.last}
          [] op[1] = "process" ->
               {item.file, SwapExt(item.file, "png", "webp")}
          [] op[1] = "extract" ->
               {SwapExt(item.file, "webp", "md")}
                  \cup {CropFile(item, n) : n \in 1..MaxRegions}
                  \cup {TextCropFile(item, k) : k \in 0..(MaxRegions - 1)}
          [] OTHER -> {}

\* mdParts.push(text)
TextPart(text) == [part |-> "text", text |-> text]

\* mdParts.push(`![[${cropName}]]`)
Placeholder(cropName) == [part |-> "embed", file |-> cropName]

\* The separator of mdParts.join('\n\n').
Separator == [part |-> "break", text |-> "\n\n"]

joinPartsUnseparated(parts) == parts

RECURSIVE joinParts(_)
\* mdParts.join('\n\n'), as the sequence of the parts and separators written.
joinParts(parts) ==
    IF Len(parts) <= 1
      THEN parts
      ELSE <<parts[1], Separator>> \o joinParts(Tail(parts))

\* The locals of extractPage after `throw`: the try/catch of extractPages'
\* per-item function turns it into the page's failure; failedAt is the region
\* being handled (0: none).
pageThrows(u, at) ==
    [u EXCEPT !.step = "done", !.failedAt = at,
              !.result = extractResult(u.page, [threw |-> TRUE, timedOut |-> FALSE])]

\* Everything but the locals of the unit and the phase stays as it is.
UnitFrame ==
    /\ UNCHANGED <<pageCount, options, chunks, pageSizePts, extractEnabled, entry>>
    /\ UNCHANGED <<pageSizes, batchVars, probeVars, runVars, traceVars, effectVars>>

\* extractPage on its own, inside the per-item function of extractPages: any
\* list of up to MaxRegions regions that chopPage may return for the page.
\* disk holds the crop files that exist, kept those whose unlink failed.
ExtractPageInit ==
    /\ phase = "extractPage"
    /\ entry = "extractPage"
    /\ unit \in {[page |-> ExtractedPage, regions |-> rs, step |-> "chop", pos |-> 1,
                  mdParts |-> <<>>, imageFiles |-> <<>>, imgCounter |-> 0,
                  disk |-> {}, kept |-> {}, artifact |-> Null, result |-> Null,
                  failedAt |-> 0]
                    : rs \in SeqsUpTo(RegionKinds, MaxRegions)}
    /\ pageCount = 0
    /\ options = [dpi |-> 0, concurrency |-> 0, format |-> "png"]
    /\ chunks = <<>>
    /\ pageSizePts = Null
    /\ extractEnabled = FALSE
    /\ pageSizes = {}
    /\ BatchIdle
    /\ RunIdle

\* const regions = await chopPage(imagePath) returns.
ChopReturns ==
    /\ phase = "extractPage" /\ unit.step = "chop"
    /\ unit' = [unit EXCEPT !.step = "crop"]
    /\ UNCHANGED phase
    /\ UnitFrame

\* chopPage throws: tesseract exits non-zero or times out.
ChopThrows ==
    /\ phase = "extractPage" /\ unit.step = "chop"
    /\ unit' = pageThrows(unit, 0)
    /\ phase' = "page.done"
    /\ UnitFrame

\* await cropRegion(imagePath, region, cropPath) settles for the next region.
CropSettle ==
    /\ phase = "extractPage" /\ unit.step = "crop" /\ unit.pos <= Len(unit.regions)
    /\ \E ok \in BOOLEAN :
          LET counter == IF unit.regions[unit.pos] = "image"
                           THEN unit.imgCounter + 1 ELSE unit.imgCounter
              crop == IF unit.regions[unit.pos] = "image"
                        THEN CropFile(unit.page, counter)
                        ELSE TextCropFile(unit.page, Len(unit.mdParts))
          IN  IF ~ok
                THEN /\ unit' = pageThrows([unit EXCEPT !.imgCounter = counter], unit.pos)
                     /\ phase' = "page.done"
                ELSE /\ unit' =
                          IF unit.regions[unit.pos] = "image"
                            THEN [unit EXCEPT !.imgCounter = counter,
                                              !.disk = @ \cup {crop},
                                              !.imageFiles = Append(@, crop),
                                              !.mdParts = Append(@, Placeholder(crop)),
                                              !.pos = @ + 1]
                            ELSE [unit EXCEPT !.disk = @ \cup {crop}, !.step = "generate"]
                     /\ UNCHANGED phase
    /\ UnitFrame

\* The crop is read and extractRegionText settles for a text region.
GenerateSettle ==
    /\ phase = "extractPage" /\ unit.step = "generate"
    /\ \/ \E text \in Texts :
             /\ unit' = [unit EXCEPT !.mdParts = Append(@, TextPart(text)),
                                     !.step = "unlink"]
             /\ UNCHANGED phase
       \/ /\ unit' = pageThrows(unit, unit.pos)
          /\ phase' = "page.done"
    /\ UnitFrame

\* try { await Bun.file(cropPath).unlink(); } catch { } settles.
CropUnlinkSettle ==
    /\ phase = "extractPage" /\ unit.step = "unlink"
    /\ \E ok \in BOOLEAN :
          LET crop == TextCropFile(unit.page, Len(unit.mdParts) - 1)
          IN  unit' = [unit EXCEPT
                         !.disk = IF ok THEN @ \ {crop} ELSE @,
                         !.kept = IF ok THEN @ ELSE @ \cup {crop},
                         !.step = "crop", !.pos = @ + 1]
    /\ UNCHANGED phase
    /\ UnitFrame

\* await Bun.write(textPath, mdParts.join('\n\n')) settles after the loop, and
\* extractPage returns to the per-item function of extractPages.
WriteSettle ==
    /\ phase = "extractPage" /\ unit.step = "crop" /\ unit.pos > Len(unit.regions)
    /\ \E ok \in BOOLEAN :
          unit' = IF ok
                    THEN [unit EXCEPT
                            !.step = "done",
                            !.artifact = joinParts(unit.mdParts),
                            !.result = extractResult(unit.page,
                                          [threw |-> FALSE, images |-> unit.imgCounter])]
                    ELSE pageThrows(unit, 0)
    /\ phase' = "page.done"
    /\ UnitFrame

ExtractPageNext ==
    \/ ChopReturns
    \/ ChopThrows
    \/ CropSettle
    \/ GenerateSettle
    \/ CropUnlinkSettle
    \/ WriteSettle

SpecExtractPage == ExtractPageInit /\ [][ExtractPageNext]_vars

\* ------------------------------------------------- extractPages on its own

\* The pages of the indices S as processPages returns them, in page order.
PagesToExtract(S) ==
    [k \in 1..Cardinality(S) |->
        LET i == CHOOSE i \in S : Cardinality({j \in S : j < i}) = k - 1
        IN  processedPage([index |-> i, file |-> PageFile(i, "png")],
                          DimsOf(Dpi, Dpi)).page]

\* The per-item function of the earlier extractPages: read the page, generate
\* its text and write `basename(page.file, '.webp') + '.md'` inside try/catch.
extractResultEarlier(page, out) ==
    IF out.threw
      THEN [success |-> FALSE, page |-> page,
            error |-> [index |-> page.index, error |-> "text extraction failed"]]
      ELSE [success |-> TRUE,
            page |-> [index |-> page.index, file |-> page.file,
                      width |-> page.width, height |-> page.height,
                      textFile |-> SwapExt(page.file, "webp", "md")]]

\* The collection loop of the earlier extractPages: both branches push
\* result.page.
PagesOfEarlier(rs) == [i \in 1..Len(rs) |-> rs[i].page]

\* extractPages on its own, in either version of the function: the pages of
\* any subset of a document of MaxExtractPages pages.
ExtractPagesInit ==
    /\ phase = "extractPages.input"
    /\ entry \in {"extractPages", "extractPages.earlier"}
    /\ unit \in {[pages |-> PagesToExtract(S)] : S \in SUBSET (1..MaxExtractPages)}
    /\ options \in [dpi : {Dpi}, concurrency : 1..MaxExtractConcurrency, format : {"png"}]
    /\ pageCount = 0
    /\ chunks = <<>>
    /\ pageSizePts = Null
    /\ extractEnabled = TRUE
    /\ pageSizes = {}
    /\ BatchIdle
    /\ RunIdle

\* extractPages is called: batchExec(pages, fn, concurrency) starts.
ExtractPagesCall ==
    /\ phase = "extractPages.input"
    /\ StartBatch(unit.pages, options.concurrency)
    /\ FreshOps("extract")
    /\ phase' = "extractPages"
    /\ UNCHANGED <<planVars, deleted, traceVars>>
    /\ UNCHANGED <<pageFiles, errors, rendered, processed, extracted, manifest>>

\* The per-item function settles for one page.
ExtractPagesSettle ==
    /\ phase = "extractPages" /\ callState = "pending"
    /\ \E w \in Awaiting, out \in ExtractOutcomes :
          LET page == items[workers[w].index + 1]
          IN  /\ WorkerResume(w, IF entry = "extractPages.earlier"
                                   THEN extractResultEarlier(page, out)
                                   ELSE extractResult(page, out))
              /\ NextOp(w, "extract")
              /\ faults' = IF out.threw
                              THEN faults \cup {<<"extract", page.index,
                                                  IF out.timedOut THEN "timeout"
                                                                  ELSE "error">>}
                              ELSE faults
    /\ UNCHANGED <<phase, planVars, deleted, rasterLog, measuredPages, spotChecked>>
    /\ UNCHANGED <<pageFiles, errors, rendered, processed, extracted, manifest>>

\* batchExec has returned: the results are collected and extractPages returns.
ExtractPagesReturn ==
    /\ phase = "extractPages" /\ callState = "returned"
    /\ extracted' = [pages |-> IF entry = "extractPages.earlier"
                                 THEN PagesOfEarlier(ResultSeq)
                                 ELSE PagesOf(ResultSeq),
                     errors |-> ErrorsOf(ResultSeq)]
    /\ phase' = "extractPages.returned"
    /\ UNCHANGED <<batchVars, probeVars, planVars, effectVars, traceVars>>
    /\ UNCHANGED <<opState, pageFiles, errors, rendered, processed, manifest>>

ExtractPagesNext ==
    \/ ExtractPagesCall
    \/ ExtractPagesSettle
    \/ ExtractPagesReturn

SpecExtractPages == ExtractPagesInit /\ [][ExtractPagesNext]_vars

\* ------------------------------------------- getImageDimensions on its own

\* n as 2 and as 4 bytes, most significant first.
BE16(n) == <<n \div 256, n % 256>>

BE32(n) == <<n \div 16777216, (n \div 65536) % 256, (n \div 256) % 256, n % 256>>

\* s with its k-th element raised by one.
Altered(s, k) == [s EXCEPT ![k] = (@ + 1) % 256]

\* The widths and heights of the PNG files.
PngLengths == {0, 1, 1654, 65538, 2147483647}

\* The first `len` bytes of a PNG file whose first 8 bytes are sig and whose
\* IHDR chunk holds width w and height h.
PngBytes(sig, w, h, len) ==
    SubSeq(sig \o <<0, 0, 0, 13>> \o <<73, 72, 68, 82>> \o BE32(w) \o BE32(h)
               \o <<8, 6, 0, 0, 0>>, 1, len)

\* The .png files: the signature or a signature with one byte altered, every
\* pair of sizes, cut at 0, 8, 23, 24 and 29 bytes, and a file that cannot
\* be opened. `made` records what the file was made from.
PngFiles ==
    {[readable |-> TRUE, bytes |-> PngBytes(sig, w, h, len),
      made |-> [signed |-> sig = PNG_SIGNATURE, width |-> w, height |-> h]]
        : sig \in {PNG_SIGNATURE} \cup {Altered(PNG_SIGNATURE, k) : k \in 1..8},
          w \in PngLengths, h \in PngLengths, len \in {0, 8, 23, 24, 29}}
    \cup {[readable |-> FALSE, bytes |-> <<>>,
           made |-> [signed |-> TRUE, width |-> 1, height |-> 1]]}

\* A marker segment: 0xFF, the marker, the declared length and the body.
Segment(marker, body) ==
    [kind |-> "segment", marker |-> marker, length |-> 2 + Len(body),
     bytes |-> <<255, marker>> \o BE16(2 + Len(body)) \o body]

\* A start-of-frame segment of declared length 7 + Len(rest): precision,
\* height, width and `rest` (the component count and the components).
FrameSegment(marker, height, width, rest) ==
    [kind |-> "frame", marker |-> marker, length |-> 7 + Len(rest),
     height |-> height, width |-> width,
     bytes |-> Segment(marker, <<8>> \o BE16(height) \o BE16(width) \o rest).bytes]

\* The pieces a marker stream is made of: a 0xFF padding byte, a byte that is
\* no marker, APP0 and DHT segments, an SOF1 segment (not a frame marker the
\* function reads), start-of-scan, and SOF0 / SOF2 segments without a
\* component count, with an empty component list and with one component.
Pieces ==
    { [kind |-> "padding", bytes |-> <<255>>],
      [kind |-> "junk", bytes |-> <<0>>],
      Segment(224, <<>>),
      Segment(196, <<0>>),
      Segment(193, <<8>> \o BE16(11) \o BE16(22) \o <<1, 1, 17, 0>>),
      [Segment(218, <<>>) EXCEPT !.kind = "scan"],
      FrameSegment(192, 2339, 1654, <<>>),
      FrameSegment(192, 300, 200, <<1, 1, 17, 0>>),
      FrameSegment(194, 480, 640, <<0>>) }

RECURSIVE Flatten(_)
\* The bytes of a sequence of pieces.
Flatten(pieces) ==
    IF pieces = <<>> THEN <<>> ELSE Head(pieces).bytes \o Flatten(Tail(pieces))

\* The .jpg files: start-of-image, up to MaxSegments pieces, and then the end
\* of the file or an end-of-image marker; and two files that do not start
\* with start-of-image.
JpegFiles ==
    {[readable |-> TRUE, bytes |-> <<255, 216>> \o Flatten(ps) \o tail,
      made |-> [soi |-> TRUE, pieces |-> ps]]
        : ps \in SeqsUpTo(Pieces, MaxSegments), tail \in {<<>>, <<255, 217>>}}
    \cup {[readable |-> TRUE, bytes |-> start \o Flatten(<<p>>),
           made |-> [soi |-> FALSE, pieces |-> <<p>>]]
            : start \in {<<255, 217>>, <<216, 255>>},
              p \in {FrameSegment(192, 300, 200, <<1, 1, 17, 0>>)}}

\* The files getImageDimensions is called on, by extension.
FilesOf(ext) ==
    IF toLowerCase(ext) = "png"
      THEN PngFiles
      ELSE IF toLowerCase(ext) \in {"jpg", "jpeg"}
        THEN JpegFiles
        ELSE {[readable |-> TRUE, bytes |-> <<82, 73, 70, 70>>, made |-> Null]}

\* getImageDimensions on its own: a file of any of the extensions.
DimsInit ==
    /\ phase = "dims.input"
    /\ entry = "getImageDimensions"
    /\ unit \in UNION {{[ext |-> ext, file |-> f] : f \in FilesOf(ext)}
                          : ext \in {"png", "PNG", "jpg", "JPEG", "webp"}}
    /\ pageCount = 0
    /\ options = [dpi |-> 0, concurrency |-> 0, format |-> "png"]
    /\ chunks = <<>>
    /\ pageSizePts = Null
    /\ extractEnabled = FALSE
    /\ pageSizes = {}
    /\ BatchIdle
    /\ RunIdle

\* getImageDimensions(filePath) settles: with the header's size, or after a
\* run of identify.
DimsCall ==
    /\ phase = "dims.input"
    /\ \E probe \in {[header |-> headerOf(unit.ext, unit.file), identify |-> r]
                        : r \in IdentifyRuns(NormalizedSizes)} :
          unit' = [ext |-> unit.ext, file |-> unit.file,
                   header |-> probe.header,
                   identify |-> IF probe.header = Null THEN probe.identify ELSE Null,
                   got |-> getImageDimensions(toLowerCase(unit.ext), probe)]
    /\ phase' = "dims.done"
    /\ UnitFrame

DimsNext == DimsCall

SpecDims == DimsInit /\ [][DimsNext]_vars

\* ------------------------------------- readJpegDimensions: the marker scan

\* The pieces of the marker streams the scan is run on: a padding byte, a
\* byte that is no marker, APP0 segments of declared length 0, 1, 2 and 4,
\* one whose declared length reaches past any file here, start-of-scan, and
\* an SOF0 segment.
ScanPieces ==
    { <<255>>, <<0>>,
      <<255, 224, 0, 0>>, <<255, 224, 0, 1>>, <<255, 224, 0, 2>>,
      <<255, 224, 0, 4, 255, 255>>, <<255, 224, 255, 255>>,
      <<255, 218, 0, 2>>,
      <<255, 192, 0, 11, 8, 1, 44, 0, 200, 1, 1, 17, 0>> }

RECURSIVE Concat(_)
\* The bytes of a sequence of byte strings.
Concat(ss) == IF ss = <<>> THEN <<>> ELSE Head(ss) \o Concat(Tail(ss))

\* The .jpg contents the scan is run on: start-of-image, up to MaxSegments
\* pieces, and then nothing, ten zero bytes or ten padding bytes.
ScanFiles ==
    {<<255, 216>> \o Concat(ps) \o tail
        : ps \in SeqsUpTo(ScanPieces, MaxSegments),
          tail \in {<<>>, [k \in 1..10 |-> 0], [k \in 1..10 |-> 255]}}

afterSegmentBody(offset, segmentLength) == offset + segmentLength

\* offset += 2 + segmentLength
afterSegment(offset, segmentLength) == offset + 2 + segmentLength

\* One run of the body of the while loop at `offset`: where the scan goes
\* on (next), or that it returns and what (done, result), and the buffer
\* offsets it read.
scanIteration(bytes, offset) ==
    IF ByteAt(bytes, offset) # 255
      THEN [done |-> TRUE, result |-> Null, next |-> offset, reads |-> {offset}]
      ELSE LET marker == ByteAt(bytes, offset + 1)
           IN  IF marker = 255
                 THEN [done |-> FALSE, result |-> Null, next |-> offset + 1,
                       reads |-> {offset, offset + 1}]
                 ELSE IF marker = 192 \/ marker = 194
                   THEN [done |-> TRUE,
                         result |-> DimsOf(readUInt16BE(bytes, offset + 7),
                                           readUInt16BE(bytes, offset + 5)),
                         next |-> offset,
                         reads |-> {offset, offset + 1} \cup (offset + 5)..(offset + 8)]
                   ELSE IF marker = 218
                     THEN [done |-> TRUE, result |-> Null, next |-> offset,
                           reads |-> {offset, offset + 1}]
                     ELSE [done |-> FALSE, result |-> Null,
                           next |-> afterSegment(offset, readUInt16BE(bytes, offset + 2)),
                           reads |-> offset..(offset + 3)]

\* readJpegDimensions has read the file, found at least 4 bytes and the
\* start-of-image marker, and is about to test the loop condition at offset 2.
ScanInit ==
    /\ phase = "scan"
    /\ entry = "readJpegDimensions"
    /\ \E bytes \in ScanFiles :
          /\ bytesReadOf(bytes, JpegReadBytes) >= 4
          /\ readUInt16BE(bytes, 0) = JPEG_SOI
          /\ unit = [bytes |-> bytes, bytesRead |-> bytesReadOf(bytes, JpegReadBytes),
                  offset |-> 2, at |-> "loop", result |-> Null, reads |-> {},
                  iterations |-> 0]
    /\ pageCount = 0
    /\ options = [dpi |-> 0, concurrency |-> 0, format |-> "png"]
    /\ chunks = <<>>
    /\ pageSizePts = Null
    /\ extractEnabled = FALSE
    /\ pageSizes = {}
    /\ BatchIdle
    /\ RunIdle

\* The loop condition is tested and, when it holds, the body runs once.
ScanIterate ==
    /\ phase = "scan"
    /\ unit.at = "loop"
    /\ IF ~(unit.offset + 9 < unit.bytesRead)
         THEN unit' = [unit EXCEPT !.at = "returned", !.result = Null, !.reads = {}]
         ELSE LET it == scanIteration(unit.bytes, unit.offset)
              IN  unit' = [unit EXCEPT !.at = IF it.done THEN "returned" ELSE "loop",
                                       !.result = it.result,
                                       !.offset = it.next,
                                       !.reads = it.reads,
                                       !.iterations = Min(@ + 1, 3)]
    /\ UNCHANGED phase
    /\ UnitFrame

ScanNext == ScanIterate

\* The scan is synchronous code: once entered, it runs.
SpecScan == ScanInit /\ [][ScanNext]_vars /\ WF_vars(ScanNext)

\* ------------------------------------------------- chopPage: the report

\* A data row of the report that has all columns of the header.
Row(level, block, box, text) ==
    [level |-> level, block_num |-> block, left |-> box[1], top |-> box[2],
     width |-> box[3], height |-> box[4], text |-> text]

\* The last line of the output, behind the final line break: it has fewer
\* columns than the header.
BlankLine == [level |-> 0]

\* The rows of the reports: block rows (level 2) of blocks 1 and 2 in two
\* places, a paragraph row (level 3), word rows (level 5) of block 1 and of
\* a block 3 with no text, blanks, and a word with and without blanks around
\* it, and the blank last line.
ReportRows ==
    {Row(2, b, box, "") : b \in {1, 2}, box \in {<<0, 0, 50, 100>>, <<0, 179, 50, 100>>}}
    \cup {Row(5, b, <<0, 0, 10, 10>>, t) : b \in {1, 3}, t \in {"", " ", "word", " word "}}
    \cup {Row(3, 1, <<0, 0, 50, 100>>, "")}
    \cup {BlankLine}

\* (cols[iText] ?? '').trim()
trim(text) ==
    CASE text = " " -> ""
      [] text = " word " -> "word"
      [] OTHER -> text

\* .filter(cols => cols.length >= header.length)
completeRows(rows) ==
    LET IsComplete(r) == r # BlankLine
    IN  SelectSeq(rows, IsComplete)

\* blockWords.get(blockNum) ?? [] : the trimmed texts of the level-5 rows of
\* the block, in row order.
blockWords(rows, blockNum) ==
    LET IsWordOf(r) == r.level = 5 /\ r.block_num = blockNum
        words == SelectSeq(completeRows(rows), IsWordOf)
    IN  [k \in 1..Len(words) |-> trim(words[k].text)]

\* The level-2 rows of the report, each with the words of its block.
blocksOf(rows) ==
    LET IsBlock(r) == r.level = 2
        blocks == SelectSeq(completeRows(rows), IsBlock)
    IN  [k \in 1..Len(blocks) |->
           Block(blocks[k].left, blocks[k].top, blocks[k].width, blocks[k].height,
                 blockWords(rows, blocks[k].block_num))]

\* chopPage on the report `rows`: the regions built, and what chopPage makes
\* of them.
chopReport(rows) ==
    LET blocks == blocksOf(rows)
        chopped == chopPage(blocks)
    IN  [rows |-> rows, blocks |-> blocks,
         built |-> [k \in 1..Len(blocks) |-> regionOf(blocks[k])],
         sorted |-> chopped.sorted, trace |-> chopped.trace,
         regions |-> chopped.regions]

\* chopPage on its own, from the rows of the report on.
ReportInit ==
    /\ phase = "report.input"
    /\ entry = "chopPage.report"
    /\ unit \in {[rows |-> rs] : rs \in SeqsUpTo(ReportRows, MaxRows)}
    /\ pageCount = 0
    /\ options = [dpi |-> 0, concurrency |-> 0, format |-> "png"]
    /\ chunks = <<>>
    /\ pageSizePts = Null
    /\ extractEnabled = FALSE
    /\ pageSizes = {}
    /\ BatchIdle
    /\ RunIdle

ReportCall ==
    /\ phase = "report.input"
    /\ unit' = chopReport(unit.rows)
    /\ phase' = "report.done"
    /\ UnitFrame

ReportNext == ReportCall

SpecReport == ReportInit /\ [][ReportNext]_vars

\* ------------------------------------------------------- chunkPages on its own

\* chunkPages on its own: any page count and parallelism within the bounds.
ChunkInit ==
    /\ phase = "chunk.input"
    /\ pageCount \in 1..MaxChunkPages
    /\ options \in [dpi : {Dpi}, concurrency : 1..MaxChunkConcurrency, format : {"png"}]
    /\ chunks = <<>>
    /\ pageSizePts = Null
    /\ extractEnabled = FALSE
    /\ entry = "chunkPages"
    /\ unit = Null
    /\ pageSizes = {}
    /\ BatchIdle
    /\ RunIdle

ChunkCall ==
    /\ phase = "chunk.input"
    /\ chunks' = chunkPages(pageCount, options.concurrency)
    /\ phase' = "chunk.done"
    /\ UNCHANGED <<pageCount, options, pageSizePts, extractEnabled, entry, pageSizes>>
    /\ UNCHANGED <<batchVars, probeVars, runVars, traceVars, effectVars, unit>>

ChunkNext == ChunkCall

SpecChunk == ChunkInit /\ [][ChunkNext]_vars

\* ------------------------------------------- a stand-alone batchExec call

BatchInit ==
    /\ items \in SeqsUpTo(ItemValues, MaxItems)
    /\ concurrency \in 1..MaxConcurrency
    /\ results = <<>>
    /\ nextIndex = 0
    /\ workers = <<>>
    /\ callState = "idle"
    /\ inFlight = 0
    /\ startedOps = {}
    /\ failedOps = {}
    /\ outOfOrder = FALSE
    /\ phase = "batch"
    /\ entry = "batchExec"
    /\ PlanIdle
    /\ RunIdle

BatchCall ==
    /\ callState = "idle"
    /\ StartBatch(items, concurrency)
    /\ UNCHANGED <<phase, planVars, effectVars, runVars, traceVars>>

OpFulfil ==
    /\ \E w \in Awaiting :
          WorkerResume(w, OpValue(items[workers[w].index + 1]))
    /\ UNCHANGED <<phase, planVars, effectVars, runVars, traceVars>>

OpReject ==
    /\ \E w \in Awaiting : WorkerThrow(w)
    /\ UNCHANGED <<phase, planVars, effectVars, runVars, traceVars>>

BatchNext == BatchCall \/ OpFulfil \/ OpReject

SpecBatch == BatchInit /\ [][BatchNext]_vars

\* batchExec under the scheduling of the event loop: the call is made, and
\* an operation that stays able to fulfil does so, the continuation of the
\* await running with the settlement (WorkerResume).  Rejections may happen
\* and nothing forces them.
SpecBatchLive ==
    /\ SpecBatch
    /\ WF_vars(BatchCall)
    /\ WF_vars(OpFulfil)

\* ------------------------------------------------------ batchExec: claims

\* Every operation of the call has settled.
BatchQuiescent == callState # "idle" /\ inFlight = 0

\* C1: whenever batchExec returns, and whenever all its operations have
\* fulfilled, it has returned exactly N results with results[i] the value of
\* the operation on inputs[i], whatever the order of completion.
C1_ResultsInInputOrder ==
    /\ callState = "returned" =>
          /\ DOMAIN results = 0..(Len(items) - 1)
          /\ \A i \in DOMAIN results : results[i] = OpValue(items[i + 1])
    /\ (BatchQuiescent /\ failedOps = {}) => callState = "returned"

\* A call over inputs that differ has returned after an operation overtook
\* an earlier one.
C1_Witness ==
    /\ callState = "returned"
    /\ outOfOrder
    /\ Len(items) >= 3
    /\ items[1] # items[2]

\* C2: the number of operations started and not yet settled never exceeds
\* min(C, N).
C2_InFlightBounded == inFlight <= Min(concurrency, Len(items))

\* The cap is reached after a worker has come back for a further item of a
\* batch longer than the cap.
C2_Witness ==
    /\ concurrency >= 2
    /\ Len(items) > concurrency
    /\ nextIndex > concurrency
    /\ inFlight = concurrency

\* C3: a failing operation aborts no sibling and is never thrown past
\* batchExec: the call does not throw, and once nothing is running every
\* item has been started and every slot holds an outcome.
C3_FailureIsolated ==
    /\ callState # "thrown"
    /\ BatchQuiescent =>
          /\ startedOps = 0..(Len(items) - 1)
          /\ \A i \in DOMAIN results : results[i] # Hole

\* ----------------------------------------------------- chunkPages: claims

\* The pages of chunk c.
ChunkPagesOf(c) == c.first..c.last

\* C4: the chunks partition [1, pageCount]: the first starts at 1, each next
\* one starts right after the previous one ends, the last ends at pageCount,
\* none is reversed, and every page lies in exactly one chunk.
C4_ChunksPartition ==
    phase = "chunk.done" =>
        /\ Len(chunks) >= 1
        /\ chunks[1].first = 1
        /\ \A k \in 1..(Len(chunks) - 1) : chunks[k + 1].first = chunks[k].last + 1
        /\ chunks[Len(chunks)].last = pageCount
        /\ \A k \in 1..Len(chunks) : chunks[k].first <= chunks[k].last
        /\ \A p \in 1..pageCount :
              Cardinality({k \in 1..Len(chunks) : p \in ChunkPagesOf(chunks[k])}) = 1

\* chunkPages has split a page count that the parallelism does not divide.
C4_Witness ==
    /\ phase = "chunk.done"
    /\ pageCount = 10
    /\ options.concurrency = 3
    /\ chunks = << [first |-> 1, last |-> 4], [first |-> 5, last |-> 7],
                   [first |-> 8, last |-> 10] >>

\* C5: there are exactly min(P, pageCount) chunks, the first
\* (pageCount mod numChunks) of them hold floor(pageCount/numChunks)+1 pages
\* and the others floor(pageCount/numChunks), so that sizes differ by at most
\* one and no chunk is empty.
C5_ChunkSizesBalanced ==
    phase = "chunk.done" =>
        LET n == Min(options.concurrency, pageCount)
            sizeOf(k) == chunks[k].last - chunks[k].first + 1
        IN  /\ Len(chunks) = n
            /\ \A k \in 1..Len(chunks) :
                  sizeOf(k) = IF k <= pageCount % n THEN (pageCount \div n) + 1
                                                    ELSE pageCount \div n
            /\ \A j, k \in 1..Len(chunks) :
                  sizeOf(j) - sizeOf(k) <= 1 /\ sizeOf(k) - sizeOf(j) <= 1
            /\ \A k \in 1..Len(chunks) : sizeOf(k) >= 1

\* chunkPages has produced chunks of two different sizes, the larger first.
C5_Witness ==
    /\ phase = "chunk.done"
    /\ options.concurrency < pageCount
    /\ pageCount % options.concurrency >= 2
    /\ chunks[1].last - chunks[1].first
         = chunks[Len(chunks)].last - chunks[Len(chunks)].first + 1

\* ------------------------------------------------------- renderPdf: claims

\* The exit statuses of the rasterizer invocations logged for chunk i.
ExitsOf(i) == [k \in 1..Len(rasterLog[i]) |-> rasterLog[i][k].exit]

\* The pages of chunk i, in order.
ChunkRange(i) ==
    [k \in 1..(chunks[i + 1].last - chunks[i + 1].first + 1) |->
       chunks[i + 1].first + k - 1]

\* C6: while the chunks are rendered, every chunk has at most two rasterizer
\* invocations, all of its own [first,last] range; a second invocation exists
\* exactly when the first exited non-zero; a chunk whose two invocations both
\* exited non-zero is reported all failed and none succeeded, one with an
\* invocation that exited zero is reported all succeeded and none failed, and
\* no reported result mixes succeeded and failed pages.
C6_RetryOnceAllOrNothing ==
    phase = "render" =>
        \A i \in DOMAIN rasterLog :
            /\ Len(rasterLog[i]) <= 2
            /\ \A k \in 1..Len(rasterLog[i]) :
                  /\ rasterLog[i][k].first = chunks[i + 1].first
                  /\ rasterLog[i][k].last = chunks[i + 1].last
            /\ Len(rasterLog[i]) = 2 <=> (Len(rasterLog[i]) >= 1
                                          /\ rasterLog[i][1].exit = "exit1")
            /\ results[i] # Hole =>
                  /\ results[i].success = <<>> \/ results[i].failed = <<>>
                  /\ ExitsOf(i) \in {<<"exit0">>, <<"exit1", "exit0">>,
                                     <<"exit1", "exit1">>}
                  /\ ExitsOf(i) = <<"exit1", "exit1">> =>
                        /\ results[i].failed = ChunkRange(i)
                        /\ results[i].success = <<>>
                  /\ "exit0" \in Range(ExitsOf(i)) =>
                        /\ results[i].success = ChunkRange(i)
                        /\ results[i].failed = <<>>
            /\ "exit0" \in Range(ExitsOf(i)) => results[i] # Hole
            /\ ExitsOf(i) = <<"exit1", "exit1">> => results[i] # Hole

\* A two-page chunk was retried and reported failed as a whole, and another
\* chunk was retried and reported rendered.
C6_Witness ==
    /\ phase = "render"
    /\ callState = "returned"
    /\ Len(chunks) = 2
    /\ chunks[1].last > chunks[1].first
    /\ ExitsOf(0) = <<"exit1", "exit1">>
    /\ results[0].failed = <<1, 2>>
    /\ ExitsOf(1) = <<"exit1", "exit0">>
    /\ results[1].success = <<3>>

\* The pages whose chunk the rasterizer has rendered.
RenderedIndices ==
    {p \in 1..pageCount :
       \E i \in DOMAIN rasterLog :
          /\ p \in chunks[i + 1].first..chunks[i + 1].last
          /\ "exit0" \in Range(ExitsOf(i))}

\* Both measurements of the spot-check came back.
SpotCheckMeasured ==
    /\ spotChecked # Null
    /\ ~spotChecked.first.threw
    /\ ~spotChecked.last.threw

\* Both spot-checked pages have exactly the predicted width and height.
SpotCheckAgrees ==
    /\ SpotCheckMeasured
    /\ spotChecked.first.dims = PredictedDims(pageSizePts, options.dpi)
    /\ spotChecked.last.dims = PredictedDims(pageSizePts, options.dpi)

\* The index set of a sequence of pages or errors.
IndicesOf(seq) == {seq[k].index : k \in 1..Len(seq)}

\* C10: once the spot-check of renderPdf has measured the first and the last
\* rendered page, every page is measured individually exactly when one of
\* the two differs from the predicted size on an axis; when both agree,
\* renderPdf returns every rendered page with the predicted width and height
\* and has measured no page other than those two.
C10_PredictionIffSpotCheckAgrees ==
    /\ (phase = "measure" /\ spotChecked # Null) =>
          (SpotCheckMeasured /\ ~SpotCheckAgrees)
    /\ (phase = "rendered" /\ SpotCheckMeasured) =>
          IF SpotCheckAgrees
            THEN /\ IndicesOf(rendered.pages) = RenderedIndices
                 /\ Len(rendered.pages) = Cardinality(RenderedIndices)
                 /\ \A k \in 1..Len(rendered.pages) :
                       /\ rendered.pages[k].width
                            = ptsToPixels(pageSizePts.width, options.dpi)
                       /\ rendered.pages[k].height
                            = ptsToPixels(pageSizePts.height, options.dpi)
                 /\ measuredPages =
                       {q \in RenderedIndices :
                          \/ \A r \in RenderedIndices : q <= r
                          \/ \A r \in RenderedIndices : r <= q}
            ELSE measuredPages = RenderedIndices
    /\ (phase = "rendered" /\ spotChecked # Null) => SpotCheckMeasured

\* renderPdf has returned three pages with the predicted size after a
\* spot-check that agreed, having measured the first and the third only.
C10_Witness ==
    /\ phase = "rendered"
    /\ SpotCheckAgrees
    /\ Len(rendered.pages) = 3
    /\ measuredPages = {1, 3}
    /\ rendered.pages[2].width = 1653
    /\ rendered.pages[2].height = 2339

\* ------------------------------------------------------------ main: claims

\* How often index i occurs in a sequence of pages or errors.
Occurrences(seq, i) == Cardinality({k \in 1..Len(seq) : seq[k].index = i})

\* C7: in the written manifest every index of 1..pageCount occurs exactly
\* once in pages and errors taken together, whatever failed in the render,
\* normalize and extract stages.
C7_IndexInExactlyOneList ==
    phase = "written" =>
        \A i \in 1..manifest.pageCount :
            Occurrences(manifest.pages, i) + Occurrences(manifest.errors, i) = 1

\* A manifest is written for two pages of which the first was rendered and
\* normalized and then failed extraction, and the second was extracted.
C7_Witness ==
    /\ phase = "written"
    /\ extractEnabled
    /\ manifest.pageCount = 2
    /\ faults = {<<"extract", 1, "error">>}
    /\ IndicesOf(manifest.pages) = {2}
    /\ IndicesOf(manifest.errors) = {1}

\* The pages whose normalization exited non-zero.
NormalizeFailed == {p \in 1..pageCount : <<"process", p, "exit">> \in faults}

\* C8: the written manifest's pageCount is |pages| + |errors| and the page
\* count of the document; when the only things that went wrong are the
\* non-zero exits of the normalization of the pages of a set F, pages has
\* pageCount - |F| entries and errors exactly one entry per index of F.
C8_PageCountIsPagesPlusErrors ==
    phase = "written" =>
        /\ manifest.pageCount = Len(manifest.pages) + Len(manifest.errors)
        /\ manifest.pageCount = pageCount
        /\ faults = {<<"process", p, "exit">> : p \in NormalizeFailed} =>
              /\ Len(manifest.pages) = pageCount - Cardinality(NormalizeFailed)
              /\ Len(manifest.errors) = Cardinality(NormalizeFailed)
              /\ IndicesOf(manifest.errors) = NormalizeFailed
              /\ IndicesOf(manifest.pages) = (1..pageCount) \ NormalizeFailed

\* A manifest is written for two pages of which only the first failed
\* normalization.
C8_Witness ==
    /\ phase = "written"
    /\ pageCount = 2
    /\ faults = {<<"process", 1, "exit">>}
    /\ manifest.pageCount = 2
    /\ Len(manifest.pages) = 1
    /\ manifest.errors = <<[index |-> 1, error |-> "magick processing failed"]>>

\* The pages for which a command timed out.
TimedOutPages == {f[2] : f \in {g \in faults : g[3] = "timeout"}}

\* C9: a command that times out for one page aborts neither its batch nor
\* the run: no batchExec call throws, the run does not end without a
\* manifest, and the written manifest lists the page in errors.
C9_TimeoutIsItemFailureOnly ==
    TimedOutPages # {} =>
        /\ callState # "thrown"
        /\ phase # "fatal"
        /\ phase = "written" => TimedOutPages \subseteq IndicesOf(manifest.errors)

\* -------------------------------------------------- main: claims (continued)

\* The stages that have an operation running.
RunningStages == {o[1] : o \in running}

\* C11: no normalization operation runs while an operation of renderPdf (a
\* chunk, a spot-check or a per-page measurement) is unsettled, no extraction
\* operation runs while a normalization is unsettled, a stage's batch returns
\* only when none of its operations is running, and the manifest is written
\* only when nothing is running.
C11_StageBarrier ==
    /\ "process" \in RunningStages => RunningStages = {"process"}
    /\ "extract" \in RunningStages => RunningStages = {"extract"}
    /\ callState = "returned" => running = {}
    /\ phase = "written" => (running = {} /\ inFlight = 0)
    /\ magickRuns # <<>> => rendered # Null
    /\ "extract" \in RunningStages => processed # Null

\* Both pages of a document are being extracted, after both were rendered and
\* normalized.
C11_Witness ==
    /\ phase = "extract"
    /\ running = {<<"extract", 0>>, <<"extract", 1>>}
    /\ Len(rendered.pages) = 2
    /\ Len(processed.pages) = 2
    /\ magickRuns = [p \in {1, 2} |-> 1]

\* C12: a run ends without a manifest only for a setup failure: whenever
\* the run has ended fatally, nothing had gone wrong for any single page or
\* chunk.
C12_ManifestUnlessSetupFails == phase = "fatal" => faults = {}

\* What went wrong for page p while it was normalized.
ProcessFaults(p) == {f[3] : f \in {g \in faults : g[1] = "process" /\ g[2] = p}}

\* The pages handed to processPages.
ProcessInput == IndicesOf(rendered.pages)

\* The entries of a sequence of pages for index i.
EntriesFor(seq, i) == {seq[k] : k \in {j \in 1..Len(seq) : seq[j].index = i}}

C19_UnreadableSizeIsPageError ==
    \A f \in {g \in faults : g[3] = "unreadable"} :
        /\ (f[1] = "measure" /\ rendered # Null) =>
              /\ f[2] \notin IndicesOf(rendered.pages)
              /\ f[2] \in IndicesOf(rendered.errors)
        /\ (f[1] = "process" /\ processed # Null) =>
              /\ f[2] \notin IndicesOf(processed.pages)
              /\ f[2] \in IndicesOf(processed.errors)

\* C20: a page whose source file could not be deleted after its transform
\* and measurement is still among the pages processPages returns, and has
\* no error.
C20_FailedDeletionNotFatal ==
    processed # Null =>
        \A f \in {g \in faults : g[1] = "process" /\ g[3] = "unlink"} :
            /\ f[2] \in IndicesOf(processed.pages)
            /\ f[2] \notin IndicesOf(processed.errors)

\* ------------------------------------------------------- chopPage: claims

\* The regions merged so far before iteration k of the merge loop.
OutputBefore(k) == IF k = 1 THEN <<>> ELSE unit.trace[k - 1]

\* The bottom edge of a region.
Bottom(r) == r.y + r.height

\* The smallest box that holds both regions.
BoundingUnion(a, b) ==
    LET left == IF a.x < b.x THEN a.x ELSE b.x
        top == IF a.y < b.y THEN a.y ELSE b.y
        right == IF a.x + a.width > b.x + b.width THEN a.x + a.width ELSE b.x + b.width
        bottom == IF Bottom(a) > Bottom(b) THEN Bottom(a) ELSE Bottom(b)
    IN  [x |-> left, y |-> top, width |-> right - left, height |-> bottom - top,
         kind |-> "text"]

\* C13: going through the sorted regions, a region is merged into the last
\* output region exactly when both are text and its top is less than 80 pixels
\* below that region's bottom; merging replaces the last output region by the
\* bounding union of the two, and any other region, every image region
\* included, is appended unchanged.
C13_MergeIffTextGapBelow80 ==
    phase = "chop.done" =>
        \A k \in 1..Len(unit.sorted) :
            LET out == OutputBefore(k)
                region == unit.sorted[k]
                last == out[Len(out)]
                gapBelow80 == \E gap \in -400..79 : region.y - Bottom(last) = gap
            IN  IF out # <<>> /\ last.kind = "text" /\ region.kind = "text" /\ gapBelow80
                  THEN unit.trace[k] =
                          SubSeq(out, 1, Len(out) - 1) \o <<BoundingUnion(last, region)>>
                  ELSE unit.trace[k] = out \o <<region>>

\* Two text blocks 79 pixels apart have become one region, and a third text
\* block 100 pixels below it a region of its own.
C13_Witness ==
    /\ phase = "chop.done"
    /\ unit.blocks = << Block(0, 379, 50, 100, <<"word">>),
                        Block(0, 0, 50, 100, <<"word">>),
                        Block(0, 179, 50, 100, <<"word">>) >>
    /\ unit.regions = << [x |-> 0, y |-> 0, width |-> 50, height |-> 279, kind |-> "text"],
                         [x |-> 0, y |-> 379, width |-> 50, height |-> 100, kind |-> "text"] >>

\* Two regions share a pixel.
Overlap(a, b) ==
    /\ a.x < b.x + b.width
    /\ b.x < a.x + a.width
    /\ a.y < Bottom(b)
    /\ b.y < Bottom(a)

\* C14: no two regions returned by chopPage share a pixel.
C14_RegionsDisjoint ==
    phase = "chop.done" =>
        \A i, j \in 1..Len(unit.regions) :
            i # j => ~Overlap(unit.regions[i], unit.regions[j])

\* ---------------------------------------------------- extractPage: claims

\* The regions of the page up to position k that are images.
ImagesUpTo(k) == Cardinality({j \in 1..k : unit.regions[j] = "image"})

\* The parts of a written artifact that are placeholder tokens.
PlaceholdersIn(artifact) ==
    Cardinality({k \in 1..Len(artifact) : artifact[k].part = "embed"})

\* C15: when every region of the page was handled and the artifact was
\* written, the artifact holds one fragment per region in region order with a
\* double line break between neighbours (the generated text for a text region,
\* the placeholder of its crop for an image region), the returned imageFiles
\* hold one crop per image region in region order, and there are as many
\* placeholders as imageFiles.
C15_ArtifactHasOneFragmentPerRegion ==
    (phase = "page.done" /\ unit.result.success) =>
        LET n == Len(unit.regions)
            written == unit.artifact
            images == unit.result.page.imageFiles
        IN  /\ Len(unit.mdParts) = n
            /\ Len(written) = IF n = 0 THEN 0 ELSE 2 * n - 1
            /\ \A k \in 1..n :
                  /\ written[2 * k - 1] = unit.mdParts[k]
                  /\ k < n => written[2 * k] = [part |-> "break", text |-> "\n\n"]
                  /\ IF unit.regions[k] = "image"
                       THEN /\ unit.mdParts[k].part = "embed"
                            /\ unit.mdParts[k].file = images[ImagesUpTo(k)]
                       ELSE /\ unit.mdParts[k].part = "text"
                            /\ unit.mdParts[k].text \in Texts
            /\ Len(images) = ImagesUpTo(n)
            /\ images = unit.imageFiles
            /\ \A i, j \in 1..Len(images) : i # j => images[i] # images[j]
            /\ PlaceholdersIn(written) = Len(images)

\* A page of a text, an image and another text region has been written.
C15_Witness ==
    /\ phase = "page.done"
    /\ unit.result.success
    /\ unit.regions = <<"text", "image", "text">>
    /\ unit.artifact = << [part |-> "text", text |-> "alpha"],
                          [part |-> "break", text |-> "\n\n"],
                          [part |-> "embed", file |-> unit.imageFiles[1]],
                          [part |-> "break", text |-> "\n\n"],
                          [part |-> "text", text |-> ""] >>
    /\ Len(unit.imageFiles) = 1

\* C16: when the crop or the text generation of one region fails after other
\* regions of the page were handled, the page still gets its artifact with
\* the fragments gathered for those regions, next to the one PageError.
C16_RegionFailureKeepsGathered ==
    (phase = "page.done" /\ unit.failedAt > 1) =>
        /\ ~unit.result.success
        /\ unit.result.error.index = unit.page.index
        /\ unit.artifact # Null
        /\ \A k \in 1..Len(unit.mdParts) :
              \E j \in 1..Len(unit.artifact) : unit.artifact[j] = unit.mdParts[k]

\* --------------------------------------------------- extractPages: claims

\* The entries of seq for page index i.
EntriesOfIndex(seq, i) == {k \in 1..Len(seq) : seq[k].index = i}

\* The page p with a text file and image files added.
IsExtractedFrom(q, p) ==
    /\ DOMAIN q = DOMAIN p \cup {"textFile", "imageFiles"}
    /\ \A f \in DOMAIN p : q[f] = p[f]

\* C17: extractPages returns every input page exactly once: either in pages,
\* with textFile and imageFiles added, or as one PageError with its index in
\* errors; a page's place depends on its own extraction only, and pages keeps
\* the input order.
C17_EachPageInPagesOrErrors ==
    phase = "extractPages.returned" =>
        /\ \A k \in 1..Len(unit.pages) :
              LET p == unit.pages[k]
                  asPage == EntriesOfIndex(extracted.pages, p.index)
                  asError == EntriesOfIndex(extracted.errors, p.index)
              IN  /\ Cardinality(asPage) + Cardinality(asError) = 1
                  /\ results[k - 1].success <=> asPage # {}
                  /\ \A j \in asPage : IsExtractedFrom(extracted.pages[j], p)
        /\ \A i, j \in 1..Len(extracted.pages) :
              i < j => extracted.pages[i].index < extracted.pages[j].index
        /\ IndicesOf(extracted.pages) \cup IndicesOf(extracted.errors)
              \subseteq IndicesOf(unit.pages)

\* ------------------------------------------------ image dimensions: claims

\* The run of identify failed: it timed out, exited non-zero or printed
\* something that is no size.
IdentifyFailed(run) ==
    \/ run.timedOut
    \/ run.exitCode # 0
    \/ ~run.stdout.parses

\* C21: getImageDimensions never signals an error: when the header gives no
\* result it runs identify, and when identify fails (non-zero exit, output
\* that does not parse, or timeout) it returns width 0 and height 0.
C21_NeverSignalsError ==
    phase = "dims.done" =>
        /\ ~unit.got.threw
        /\ unit.header = Null => unit.identify # Null
        /\ (unit.header = Null /\ IdentifyFailed(unit.identify)) =>
              unit.got.dims = [width |-> 0, height |-> 0]

\* The file of the call is a PNG file by its name.
IsPngCall == unit.ext \in {"png", "PNG"}

\* C22: a file of at least 24 bytes that starts with the PNG signature gives
\* the width and height its bytes 16..19 and 20..23 encode, most significant
\* byte first, and identify is not run; a shorter file or one with other
\* first 8 bytes gives no header result, and identify is run.
C22_PngHeaderDimensions ==
    (phase = "dims.done" /\ IsPngCall) =>
        LET made == unit.file.made
        IN  IF unit.file.readable /\ Len(unit.file.bytes) >= 24 /\ made.signed
              THEN /\ unit.header = [width |-> made.width, height |-> made.height]
                   /\ unit.identify = Null
                   /\ unit.got = [threw |-> FALSE, dims |-> unit.header]
              ELSE /\ unit.header = Null
                   /\ unit.identify # Null

\* A 24-byte PNG header of width 1654 and height 65538 has been read.
C22_Witness ==
    /\ phase = "dims.done"
    /\ unit.ext = "PNG"
    /\ Len(unit.file.bytes) = 24
    /\ unit.file.made = [signed |-> TRUE, width |-> 1654, height |-> 65538]
    /\ unit.got = [threw |-> FALSE, dims |-> [width |-> 1654, height |-> 65538]]

\* The file of the call is a readable JPEG file by its name that starts with
\* start-of-image.
IsJpegScan ==
    /\ unit.ext \in {"jpg", "JPEG"}
    /\ unit.file.readable
    /\ unit.file.made.soi

\* The pieces of the marker stream of the file.
StreamPieces == unit.file.made.pieces

\* The first piece of the stream that is no padding and no segment to skip:
\* a frame, a start-of-scan or a byte that is no marker (0: there is none).
FirstStop ==
    LET stops == {k \in 1..Len(StreamPieces) :
                     StreamPieces[k].kind \in {"frame", "scan", "junk"}}
    IN  IF stops = {} THEN 0 ELSE CHOOSE k \in stops : \A j \in stops : k <= j

RECURSIVE EndOfPiece(_)
\* The offset behind piece k of the stream.
EndOfPiece(k) == IF k = 0 THEN 2 ELSE EndOfPiece(k - 1) + Len(StreamPieces[k].bytes)

\* C23: after start-of-image, the scan returns the height and width of the
\* first SOF0/SOF2 segment when it comes before any start-of-scan, and no
\* result when start-of-scan comes first; padding bytes and other segments
\* before it are skipped, and a frame segment that lies inside the bytes read
\* is found even when it ends at the last byte read.
C23_FirstFrameBeforeScan ==
    (phase = "dims.done" /\ IsJpegScan) =>
        LET stop == FirstStop
        IN  /\ unit.header # Null =>
                  /\ stop # 0
                  /\ StreamPieces[stop].kind = "frame"
                  /\ unit.header = [width |-> StreamPieces[stop].width,
                                    height |-> StreamPieces[stop].height]
            /\ (stop # 0 /\ StreamPieces[stop].kind = "scan") => unit.header = Null
            /\ (stop # 0 /\ StreamPieces[stop].kind = "frame"
                  /\ EndOfPiece(stop) <= Len(unit.file.bytes)) =>
                  unit.header = [width |-> StreamPieces[stop].width,
                                 height |-> StreamPieces[stop].height]

\* ------------------------------------------------ manifest order: claims

\* The entries of seq are in strictly ascending page order.
Ascending(seq) == \A i, j \in 1..Len(seq) : i < j => seq[i].index < seq[j].index

\* The errors extractPages returned in the run (none when it did not run).
ExtractionErrors == IF extracted = Null THEN <<>> ELSE extracted.errors

\* The entries of seq with the message msg.
WithMessage(seq, msg) ==
    LET Is(e) == e.error = msg
    IN  SelectSeq(seq, Is)

InFlightOps == {op \in running : op[1] \in {"render", "process", "extract"}}

\* The file names that belong to page q of the extraction stage: its page
\* file before and after normalizing, its text file and its crops.
NamesOfPage(q) ==
    {q.file, SwapExt(q.file, "webp", "png"), SwapExt(q.file, "webp", "md")}
       \cup {CropFile(q, n) : n \in 1..MaxRegions}
       \cup {TextCropFile(q, k) : k \in 0..(MaxRegions - 1)}

\* C25: no two in-flight items write or delete the same path; the crop files
\* of the regions of one page have pairwise distinct names, and a temporary
\* text crop of a page never has the name of a file of another page.
C25_OneOwnerPerPath ==
    /\ \A a, b \in InFlightOps : a # b => WriteTargets(a) \cap WriteTargets(b) = {}
    /\ phase = "extract" =>
          \A i \in 1..Len(items) :
              /\ Cardinality({CropFile(items[i], n) : n \in 1..MaxRegions}
                                \cup {TextCropFile(items[i], k) : k \in 0..(MaxRegions - 1)})
                    = 2 * MaxRegions
              /\ \A j \in 1..Len(items) :
                    i # j => \A k \in 0..(MaxRegions - 1) :
                                TextCropFile(items[i], k) \notin NamesOfPage(items[j])

\* Two pages are being extracted at once, each with its own crops.
C25_Witness ==
    /\ phase = "extract"
    /\ InFlightOps = {<<"extract", 0>>, <<"extract", 1>>}
    /\ WriteTargets(<<"extract", 0>>) # {}
    /\ TextCropFile(items[2], 0) \in WriteTargets(<<"extract", 1>>)

\* ------------------------------------------- batchExec: claims (continued)

\* The indices whose operation is being awaited by a worker.
HeldIndices == {workers[w].index : w \in Awaiting}

\* C26: while no operation has failed, every index below the cursor has been
\* claimed by exactly one worker and none above it, no two workers hold the
\* same index, a result slot is written exactly when the operation of its own
\* index has completed (so no slot is written twice, and none by another
\* worker), and when the call returns every index has been run.
C26_EachIndexClaimedOnce ==
    (callState # "idle" /\ failedOps = {}) =>
        /\ \A u, w \in Awaiting : u # w => workers[u].index # workers[w].index
        /\ nextIndex <= Len(items)
        /\ startedOps = 0..(nextIndex - 1)
        /\ inFlight = Cardinality(HeldIndices)
        /\ \A i \in DOMAIN results :
              /\ results[i] = Hole <=> (i >= nextIndex \/ i \in HeldIndices)
              /\ results[i] # Hole => results[i] = [kind |-> "value", of |-> items[i + 1]]
        /\ callState = "returned" => startedOps = 0..(Len(items) - 1)

\* A call with four items and two workers has returned after its operations
\* settled out of order.
C26_Witness ==
    /\ entry = "batchExec"
    /\ callState = "returned"
    /\ failedOps = {}
    /\ Len(items) = 4
    /\ concurrency = 2
    /\ outOfOrder

\* ------------------------------------------------ page records: claims

\* The pages of seq with index i.
PagesWithIndex(seq, i) == {k \in 1..Len(seq) : seq[k].index = i}

\* C27: processPages and extractPages return only pages with the index of
\* one of their input pages, each at most once, and with every field the
\* input page had; extractPages leaves index, file, width and height of a
\* returned page as they were and adds textFile and imageFiles only.
C27_StagesKeepIndexAndFields ==
    /\ processed # Null =>
          \A k \in 1..Len(processed.pages) :
              LET q == processed.pages[k]
                  from == PagesWithIndex(rendered.pages, q.index)
              IN  /\ Cardinality(from) = 1
                  /\ Cardinality(PagesWithIndex(processed.pages, q.index)) = 1
                  /\ \A j \in from : DOMAIN rendered.pages[j] \subseteq DOMAIN q
    /\ extracted # Null =>
          \A k \in 1..Len(extracted.pages) :
              LET q == extracted.pages[k]
                  from == PagesWithIndex(processed.pages, q.index)
              IN  /\ Cardinality(from) = 1
                  /\ Cardinality(PagesWithIndex(extracted.pages, q.index)) = 1
                  /\ \A j \in from :
                        /\ DOMAIN q = DOMAIN processed.pages[j] \cup {"textFile", "imageFiles"}
                        /\ \A f \in {"index", "file", "width", "height"} :
                              q[f] = processed.pages[j][f]

\* A run in which page 1 failed to normalize and page 2 went through all
\* three stages, with an image crop.
C27_Witness ==
    /\ phase = "written"
    /\ IndicesOf(rendered.pages) = {1, 2}
    /\ IndicesOf(processed.pages) = {2}
    /\ extracted # Null
    /\ IndicesOf(extracted.pages) = {2}
    /\ Len(extracted.pages[1].imageFiles) = 1

\* ------------------------------------------------ temporary crops: claims

\* The temporary text crops of the page that exist.
TextCropsOnDisk ==
    {c \in unit.disk : \E k \in 0..(MaxRegions - 1) : c = TextCropFile(unit.page, k)}

\* C28: when the extraction of a page has ended, in success or in failure,
\* no temporary text crop of the page exists any more, except those whose
\* deletion itself failed.
C28_TextCropsReleased ==
    phase = "page.done" => TextCropsOnDisk \subseteq unit.kept

\* ------------------------------------------------ chopPage report: claims

\* The positions of the block-level rows of the report.
BlockRowsAt == {i \in 1..Len(unit.rows) : unit.rows[i].level = 2}

\* The position of the k-th block-level row.
BlockRowAt(k) ==
    CHOOSE i \in BlockRowsAt : Cardinality({j \in BlockRowsAt : j < i}) = k - 1

\* Some word-level row of block b holds more than blanks.
BlockHasWord(b) ==
    \E i \in 1..Len(unit.rows) :
        /\ unit.rows[i].level = 5
        /\ unit.rows[i].block_num = b
        /\ unit.rows[i].text \in {"word", " word "}

\* C29: before merging there is exactly one region per block-level row, in
\* row order and at the row's box; it is text exactly when some word-level
\* row with the same block number has text that is not empty after trimming,
\* and image otherwise, also when the block has no word row.
C29_TextIffBlockHasWord ==
    phase = "report.done" =>
        /\ Len(unit.built) = Cardinality(BlockRowsAt)
        /\ \A k \in 1..Len(unit.built) :
              LET row == unit.rows[BlockRowAt(k)]
                  region == unit.built[k]
              IN  /\ region.x = row.left /\ region.y = row.top
                  /\ region.width = row.width /\ region.height = row.height
                  /\ region.kind = IF BlockHasWord(row.block_num) THEN "text" ELSE "image"

\* A report with a word of block 1 between the rows of block 2 and block 1:
\* block 2 has become an image region and block 1 a text region.
C29_Witness ==
    /\ phase = "report.done"
    /\ Len(unit.rows) = 3
    /\ unit.rows[1].level = 2 /\ unit.rows[1].block_num = 2
    /\ unit.rows[2].level = 5 /\ unit.rows[2].text = " word "
    /\ unit.rows[3].level = 2 /\ unit.rows[3].block_num = 1
    /\ unit.built[1].kind = "image"
    /\ unit.built[2].kind = "text"

\* ------------------------------------------- chopPage: claims (continued)

\* Region a comes before region b in reading order, or at the same place.
InReadingOrder(a, b) == a.y < b.y \/ (a.y = b.y /\ a.x <= b.x)

\* C30: the regions chopPage returns are sorted by top ascending, ties by
\* left ascending, and no two adjacent returned regions are both text with
\* less than 80 pixels between the bottom of the first and the top of the
\* second (merging again would change nothing).
C30_OutputInReadingOrder ==
    phase = "chop.done" =>
        \A k \in 1..(Len(unit.regions) - 1) :
            LET a == unit.regions[k]
                b == unit.regions[k + 1]
            IN  /\ InReadingOrder(a, b)
                /\ ~(a.kind = "text" /\ b.kind = "text" /\ b.y - (a.y + a.height) < 80)

\* ------------------------------------------- renderPdf: claims (continued)

\* How many entries of the sequence seq are about page p.
EntriesAbout(seq, p) == Cardinality({k \in 1..Len(seq) : seq[k].index = p})

\* Both rasterizer invocations of chunk i exited non-zero.
FailedTwice(i) == ExitsOf(i) = <<"exit1", "exit1">>

\* The pages and errors sequences account for the chunks as the log of the
\* rasterizer says: every page once, the pages of a chunk that failed twice
\* as 'render failed' errors, the pages of the other chunks as pages, and the
\* pages in ascending index order.
ChunksAccounted(pages, errs) ==
    /\ \A p \in 1..pageCount : EntriesAbout(pages, p) + EntriesAbout(errs, p) = 1
    /\ \A i \in DOMAIN rasterLog :
       \A p \in chunks[i + 1].first..chunks[i + 1].last :
          IF FailedTwice(i)
            THEN \E k \in 1..Len(errs) :
                    errs[k] = [index |-> p, error |-> "render failed"]
            ELSE EntriesAbout(pages, p) = 1
    /\ \A j, k \in 1..Len(pages) : j < k => pages[j].index < pages[k].index

\* C31: in the result renderPdf returns, every index in 1..pageCount is in
\* exactly one of pages and errors, the pages of a chunk whose render failed
\* twice are all in errors with 'render failed', the pages of every other
\* chunk are all in pages, and pages is in ascending index order.
C31_FailedChunkOnlyOwnPages ==
    phase = "rendered" => ChunksAccounted(rendered.pages, rendered.errors)

\* ------------------------------------------ batchExec: claims (continued)

\* Every slot of the results array holds a value.
AllSlotsFilled == \A i \in 0..(Len(items) - 1) : results[i] # Hole

\* C32: batchExec terminates.  At return every one of the N result slots is
\* filled; with N = 0 no operation is ever started and the call returns an
\* empty results array; and on every run in which no started operation
\* rejects, eventually every worker has exited and the call has returned.
C32_Terminates ==
    /\ [](callState = "returned" => AllSlotsFilled /\ DOMAIN results = 0..(Len(items) - 1))
    /\ [](Len(items) = 0 => startedOps = {} /\ inFlight = 0)
    /\ ([](failedOps = {}) =>
           <>(callState = "returned" /\ AllExited(workers) /\ AllSlotsFilled))

\* A call on four items with three workers has returned with every slot
\* filled, its operations having settled out of order.
C32_Witness ==
    /\ callState = "returned"
    /\ Len(items) = 4
    /\ Len(workers) = 3
    /\ AllExited(workers)
    /\ AllSlotsFilled
    /\ outOfOrder

\* --------------------------------- readJpegDimensions: claims (continued)

\* C33: the marker scan of readJpegDimensions terminates.  Every iteration
\* after which the loop goes on leaves the offset strictly greater than it
\* found it (also behind a segment of declared length 0), no iteration reads
\* a byte at or behind bytesRead, nor behind the 64 KB read, and the scan
\* eventually returns.
C33_ScanTerminates ==
    /\ [][unit.at = "loop" /\ unit'.at = "loop" => unit'.offset > unit.offset]_vars
    /\ [](\A r \in unit.reads : 0 <= r /\ r < unit.bytesRead /\ r < JpegReadBytes)
    /\ <>(unit.at = "returned")

\* The scan has gone on behind a segment of declared length 0, having run
\* its body before, and has then returned.
C33_Witness ==
    /\ phase = "scan"
    /\ unit.at = "returned"
    /\ unit.iterations = 3
    /\ \E o \in 2..(unit.offset - 2) :
          /\ SubSeq(unit.bytes, o + 1, o + 4) = <<255, 224, 0, 0>>
          /\ unit.offset = o + 2
          /\ unit.reads = {unit.offset}

====
